---- MODULE Spec2Model ----
(***************************************************************************)
(* Model of the tax-sale PDF extraction engine of                          *)
(* src/scripts/universal_parser.py: the text helpers, the parcel-ID        *)
(* normaliser, the row classifier, the format detector, the four row       *)
(* parsers and the page/table/row loop of parse_pdf.                       *)
(*                                                                         *)
(* A Python str is a sequence of one-character strings, so that upper(),   *)
(* strip(), `in` and the regular expressions are computed, not assumed.    *)
(* None (for a str) is the one-element sequence NoneStr, which no text      *)
(* equals.  An optional number or record is <<>> (None) or <<v>>.          *)
(* A float amount is an integer number of hundredths.                      *)
(***************************************************************************)
EXTENDS Integers, Sequences, FiniteSets, TLC

(* ---------------------------------------------------------------------- *)
(* Characters and the str methods the parser uses                          *)
(* ---------------------------------------------------------------------- *)

NoneStr == <<"<None>">>

Digits == {"0", "1", "2", "3", "4", "5", "6", "7", "8", "9"}

UpperLetters ==
    {"A", "B", "C", "D", "E", "F", "G", "H", "I", "J", "K", "L", "M",
     "N", "O", "P", "Q", "R", "S", "T", "U", "V", "W", "X", "Y", "Z"}

UpperOf ==
    [a |-> "A", b |-> "B", c |-> "C", d |-> "D", e |-> "E", f |-> "F",
     g |-> "G", h |-> "H", i |-> "I", j |-> "J", k |-> "K", l |-> "L",
     m |-> "M", n |-> "N", o |-> "O", p |-> "P", q |-> "Q", r |-> "R",
     s |-> "S", t |-> "T", u |-> "U", v |-> "V", w |-> "W", x |-> "X",
     y |-> "Y", z |-> "Z"]

LowerLetters == DOMAIN UpperOf

\* \s of the re module, for the characters that occur in a PDF cell
Whitespace == {" ", "\n", "\t"}

\* str() of a cell that is not None
Truthy(v) == v # NoneStr /\ v # <<>>

UpperChar(c) == IF c \in LowerLetters THEN UpperOf[c] ELSE c

\* str.upper()
Upper(s) == [i \in 1..Len(s) |-> UpperChar(s[i])]

RECURSIVE LStrip(_)
LStrip(s) ==
    IF s # <<>> /\ Head(s) \in Whitespace THEN LStrip(Tail(s)) ELSE s

RECURSIVE RStrip(_)
RStrip(s) ==
    IF s # <<>> /\ s[Len(s)] \in Whitespace
    THEN RStrip(SubSeq(s, 1, Len(s) - 1))
    ELSE s

\* str.strip()
Strip(s) == RStrip(LStrip(s))

\* s[i:i+len(sub)] == sub
OccursAt(s, i, sub) ==
    /\ i + Len(sub) - 1 <= Len(s)
    /\ \A k \in 1..Len(sub) : s[i + k - 1] = sub[k]

\* sub in s
Contains(s, sub) == \E i \in 1..(Len(s) - Len(sub) + 1) : OccursAt(s, i, sub)

\* any(x in s for x in subs)
ContainsAny(s, subs) == \E k \in 1..Len(subs) : Contains(s, subs[k])

\* re.sub(r'\s+', '', s)
RECURSIVE RemoveWhitespace(_)
RemoveWhitespace(s) ==
    IF s = <<>> THEN <<>>
    ELSE IF Head(s) \in Whitespace THEN RemoveWhitespace(Tail(s))
    ELSE <<Head(s)>> \o RemoveWhitespace(Tail(s))

\* re.sub(r'\s+', ' ', s).strip()
RECURSIVE CollapseWhitespace(_)
CollapseWhitespace(s) ==
    IF s = <<>> THEN <<>>
    ELSE IF Head(s) \in Whitespace
         THEN <<" ">> \o CollapseWhitespace(LStrip(s))
         ELSE <<Head(s)>> \o CollapseWhitespace(Tail(s))

NormalizeSpaces(s) == Strip(CollapseWhitespace(s))

\* s.split(sep) for a one-character separator
RECURSIVE SplitOn(_, _)
SplitOn(s, sep) ==
    IF \A i \in 1..Len(s) : s[i] # sep THEN <<s>>
    ELSE LET i == CHOOSE k \in 1..Len(s) :
                      s[k] = sep /\ \A m \in 1..(k - 1) : s[m] # sep
         IN  <<SubSeq(s, 1, i - 1)>> \o SplitOn(SubSeq(s, i + 1, Len(s)), sep)

\* sep.join(parts)
RECURSIVE JoinWith(_, _)
JoinWith(parts, sep) ==
    IF parts = <<>> THEN <<>>
    ELSE IF Len(parts) = 1 THEN parts[1]
    ELSE parts[1] \o sep \o JoinWith(Tail(parts), sep)

(* ---------------------------------------------------------------------- *)
(* Regular expressions: a pattern is a sequence of items, each a character *)
(* class with a greedy repetition {lo,hi}; the matcher backtracks as the   *)
(* re module does, so the match returned is the one re.search returns.     *)
(* ---------------------------------------------------------------------- *)

\* hi = -1 is an unbounded repetition
Item(cls, lo, hi) == [cls |-> cls, lo |-> lo, hi |-> hi]

AtLeast(cls, lo) == Item(cls, lo, -1)

D(lo, hi) == Item(Digits, lo, hi)

Lit(c) == Item({c}, 1, 1)

\* length of the longest run of cls characters that starts at s[i], at most hi
RECURSIVE RunLength(_, _, _, _)
RunLength(s, i, cls, hi) ==
    IF hi = 0 \/ i > Len(s) \/ s[i] \notin cls THEN 0
    ELSE 1 + RunLength(s, i + 1, cls, hi - 1)

\* the end anchors the parser's patterns use
AtEnd(s, i, anchor) ==
    CASE anchor = "none" -> TRUE
      [] anchor = "$" ->
            i = Len(s) + 1 \/ (i = Len(s) /\ s[i] = "\n")
      [] anchor = "(?=\\s|$)" ->
            i = Len(s) + 1 \/ s[i] \in Whitespace \/ (i = Len(s) /\ s[i] = "\n")
      [] anchor = "(?=\\s)" ->
            i <= Len(s) /\ s[i] \in Whitespace

\* the position after the match of pat[k..] at s[i], or 0 if there is none
RECURSIVE MatchFrom(_, _, _, _, _)
RECURSIVE TryCount(_, _, _, _, _, _)
MatchFrom(s, i, pat, k, anchor) ==
    IF k > Len(pat) THEN (IF AtEnd(s, i, anchor) THEN i ELSE 0)
    ELSE TryCount(s, i, pat, k, anchor,
                  RunLength(s, i, pat[k].cls, pat[k].hi))

TryCount(s, i, pat, k, anchor, n) ==
    IF n < pat[k].lo THEN 0
    ELSE LET r == MatchFrom(s, i + n, pat, k + 1, anchor)
         IN  IF r # 0 THEN r ELSE TryCount(s, i, pat, k, anchor, n - 1)

\* re.match(pat, s): truthiness
ReMatch(s, pat, anchor) == MatchFrom(s, 1, pat, 1, anchor) # 0

\* re.search(pat, s): <<>> or <<match.group(0)>>
RECURSIVE SearchFrom(_, _, _)
SearchFrom(s, i, pat) ==
    IF i > Len(s) + 1 THEN <<>>
    ELSE LET r == MatchFrom(s, i, pat, 1, "none")
         IN  IF r # 0 THEN <<SubSeq(s, i, r - 1)>>
             ELSE SearchFrom(s, i + 1, pat)

ReSearch(s, pat) == SearchFrom(s, 1, pat)

(* ---------------------------------------------------------------------- *)
(* Text cleaning                                                           *)
(* ---------------------------------------------------------------------- *)

COMMON_FIRST_NAMES ==
    {<<"D", "A", "V", "I", "D">>,
     <<"J", "A", "M", "E", "S">>,
     <<"J", "O", "H", "N">>,
     <<"M", "A", "R", "Y">>,
     <<"M", "A", "R", "I">>,
     <<"J", "A", "C", "K">>,
     <<"J", "A", "N", "E">>,
     <<"P", "A", "U", "L">>,
     <<"A", "N", "N", "E">>,
     <<"M", "A", "R", "K">>,
     <<"R", "U", "T", "H">>,
     <<"L", "O", "U", "I", "S">>,
     <<"M", "I", "C", "H", "A", "E", "L">>,
     <<"P", "A", "T", "R", "I", "C", "I", "A">>,
     <<"T", "H", "O", "M", "A", "S">>,
     <<"R", "I", "C", "H", "A", "R", "D">>,
     <<"R", "O", "B", "E", "R", "T">>,
     <<"W", "I", "L", "L", "I", "A", "M">>,
     <<"M", "A", "R", "G", "A", "R", "E", "T">>,
     <<"A", "N", "D", "R", "E", "A">>,
     <<"N", "A", "O", "M", "I">>,
     <<"C", "O", "N", "N", "I", "E">>,
     <<"E", "V", "E", "L", "Y", "N">>,
     <<"I", "R", "E", "N", "E">>,
     <<"K", "I", "R", "S", "T", "E", "N">>,
     <<"V", "I", "N", "C", "E", "N", "T">>,
     <<"L", "E", "O">>,
     <<"T", "A", "R", "A">>,
     <<"T", "H", "E", "L", "M", "A">>,
     <<"M", "A", "T", "T", "H", "E", "W">>,
     <<"T", "E", "R", "R", "Y">>,
     <<"J", "E", "R", "E">>,
     <<"L", "I", "N", "D", "A">>,
     <<"D", "E", "B", "R", "A">>,
     <<"K", "E", "N", "N", "E", "T", "H">>,
     <<"S", "H", "I", "R", "L", "E", "Y">>,
     <<"W", "E", "N", "D", "Y">>,
     <<"S", "O", "P", "H", "I", "E">>,
     <<"R", "A", "N", "D", "A", "L", "L">>,
     <<"E", "U", "G", "E", "N", "E">>,
     <<"C", "A", "R", "L">>,
     <<"E", "L", "A", "I", "N", "E">>,
     <<"L", "O", "R", "I", "E">>,
     <<"M", "A", "R", "T", "I", "N">>,
     <<"G", "R", "E", "G", "O", "R", "Y">>,
     <<"T", "R", "A", "V", "I", "S">>,
     <<"L", "E", "E">>,
     <<"G", "E", "R", "T", "R", "U", "D", "E">>,
     <<"R", "O", "B", "I", "N">>,
     <<"E", "D", "W", "A", "R", "D">>,
     <<"J", "O", "D", "Y">>,
     <<"C", "H", "A", "R", "L", "O", "T", "T", "E">>,
     <<"K", "R", "I", "S", "T", "O", "P", "H", "E", "R">>,
     <<"D", "A", "W", "N", "A">>,
     <<"B", "R", "U", "N", "H", "I", "L", "D", "E">>,
     <<"H", "E", "R", "B", "E", "R", "T">>,
     <<"L", "Y", "N", "N">>}

\* str.isupper(): some cased character, and no lower-case one
IsUpper(w) ==
    /\ \E i \in 1..Len(w) : w[i] \in UpperLetters
    /\ \A i \in 1..Len(w) : w[i] \notin LowerLetters

SingleUpper(w) == Len(w) = 1 /\ IsUpper(w)

\* the index after the run of single upper-case letter words that starts at
\* words[j]: the inner while loop
RECURSIVE RunEnd(_, _)
RunEnd(words, j) ==
    IF j <= Len(words) /\ SingleUpper(words[j]) THEN RunEnd(words, j + 1)
    ELSE j

\* the while loop of clean_spaced_text over words[i..]
RECURSIVE MergeLetterRuns(_, _)
MergeLetterRuns(words, i) ==
    IF i > Len(words) THEN <<>>
    ELSE IF SingleUpper(words[i])
    THEN LET j == RunEnd(words, i + 1)
             combined == JoinWith(SubSeq(words, i, j - 1), <<>>)
         IN  IF j - i >= 2
             THEN IF /\ j <= Len(words)
                     /\ Len(words[j]) >= 2
                     /\ Len(words[j]) <= 10
                     /\ IsUpper(words[j])
                     /\ words[j] \notin COMMON_FIRST_NAMES
                  THEN <<combined \o words[j]>> \o MergeLetterRuns(words, j + 1)
                  ELSE <<combined>> \o MergeLetterRuns(words, j)
             ELSE <<words[i]>> \o MergeLetterRuns(words, i + 1)
    ELSE <<words[i]>> \o MergeLetterRuns(words, i + 1)

\* \w of the re module
WordChars == UpperLetters \cup LowerLetters \cup Digits \cup {"_"}

\* r'([A-Z]) ([A-Z]{5,})' with the look-ahead (?=\s|$)
PatLetterWord == <<Item(UpperLetters, 1, 1), Lit(" "), AtLeast(UpperLetters, 5)>>

\* re.sub(r'\b([A-Z]) ([A-Z]{5,})(?=\s|$)', r'\1\2', s), scanning from s[i]
RECURSIVE MergeLetterWord(_, _)
MergeLetterWord(s, i) ==
    IF i > Len(s) THEN <<>>
    ELSE LET boundary == s[i] \in WordChars /\ (i = 1 \/ s[i - 1] \notin WordChars)
             r == IF boundary
                  THEN MatchFrom(s, i, PatLetterWord, 1, "(?=\\s|$)")
                  ELSE 0
         IN  IF r # 0
             THEN <<s[i]>> \o SubSeq(s, i + 2, r - 1) \o MergeLetterWord(s, r)
             ELSE <<s[i]>> \o MergeLetterWord(s, i + 1)

\* clean_spaced_text(text)
clean_spaced_text(text) ==
    IF ~Truthy(text) THEN text
    ELSE LET words == SplitOn(NormalizeSpaces(text), " ")
             joined == JoinWith(MergeLetterRuns(words, 1), <<" ">>)
         IN  MergeLetterWord(joined, 1)

\* the number of leading "digit, space" pairs of s from s[i]: (\d )+ taken
\* greedily
RECURSIVE DigitSpacePairs(_, _)
DigitSpacePairs(s, i) ==
    IF i + 1 <= Len(s) /\ s[i] \in Digits /\ s[i + 1] = " "
    THEN 1 + DigitSpacePairs(s, i + 2)
    ELSE 0

\* the end of the match of r'^(\d )+\d{1,2}(?=\s)' with n pairs or fewer, or 0
RECURSIVE SpacedNumberEnd(_, _)
SpacedNumberEnd(s, n) ==
    IF n < 1 THEN 0
    ELSE LET r == MatchFrom(s, 2 * n + 1, <<D(1, 2)>>, 1, "(?=\\s)")
         IN  IF r # 0 THEN r ELSE SpacedNumberEnd(s, n - 1)

\* the number of "whitespace, digit" pairs of s from s[i]: (\s\d)+ taken
\* greedily
RECURSIVE SpaceDigitPairs(_, _)
SpaceDigitPairs(s, i) ==
    IF i + 1 <= Len(s) /\ s[i] \in Whitespace /\ s[i + 1] \in Digits
    THEN 1 + SpaceDigitPairs(s, i + 2)
    ELSE 0

\* clean_spaced_address(text)
clean_spaced_address(text) ==
    IF ~Truthy(text) THEN text
    ELSE LET t0 == NormalizeSpaces(text)
             e1 == SpacedNumberEnd(t0, DigitSpacePairs(t0, 1))
             t1 == IF e1 # 0
                   THEN RemoveWhitespace(SubSeq(t0, 1, e1 - 1))
                        \o SubSeq(t0, e1, Len(t0))
                   ELSE t0
             n2 == IF t1 # <<>> /\ t1[1] \in Digits
                   THEN SpaceDigitPairs(t1, 2)
                   ELSE 0
             t2 == IF n2 >= 1
                   THEN RemoveWhitespace(SubSeq(t1, 1, 1 + 2 * n2))
                        \o SubSeq(t1, 2 + 2 * n2, Len(t1))
                   ELSE t1
         IN  Strip(clean_spaced_text(t2))

(* ---------------------------------------------------------------------- *)
(* Money: a float is an integer number of hundredths; the literals read    *)
(* are [sign] digits [. digits] with at most two decimals, which are the   *)
(* amounts a sale list prints.  Any other text is a ValueError.            *)
(* ---------------------------------------------------------------------- *)

DigitValue ==
    [c \in Digits |->
        CASE c = "0" -> 0 [] c = "1" -> 1 [] c = "2" -> 2 [] c = "3" -> 3
          [] c = "4" -> 4 [] c = "5" -> 5 [] c = "6" -> 6 [] c = "7" -> 7
          [] c = "8" -> 8 [] c = "9" -> 9]

RECURSIVE DecimalValue(_)
DecimalValue(ds) ==
    IF ds = <<>> THEN 0
    ELSE 10 * DecimalValue(SubSeq(ds, 1, Len(ds) - 1)) + DigitValue[ds[Len(ds)]]

AllDigits(ds) == \A i \in 1..Len(ds) : ds[i] \in Digits

\* re.sub(r'[$,]', '', s)
RECURSIVE RemoveMoneyMarks(_)
RemoveMoneyMarks(s) ==
    IF s = <<>> THEN <<>>
    ELSE IF Head(s) \in {"$", ","} THEN RemoveMoneyMarks(Tail(s))
    ELSE <<Head(s)>> \o RemoveMoneyMarks(Tail(s))

\* float(s) for the amounts a list prints: an optional sign, digits and at
\* most two decimals give <<hundredths>>; any other text the documents of
\* this model hold raises ValueError, <<>>. Exponents, "inf", "nan", "_"
\* and a third decimal, which float() also reads, occur in none of them.
Float(s) ==
    LET t == Strip(s)
        signed == t # <<>> /\ t[1] \in {"-", "+"}
        body == IF signed THEN Tail(t) ELSE t
        parts == SplitOn(body, ".")
        whole == parts[1]
        frac == IF Len(parts) = 2 THEN parts[2] ELSE <<>>
        cents == IF Len(frac) = 0 THEN 0
                 ELSE IF Len(frac) = 1 THEN 10 * DecimalValue(frac)
                 ELSE DecimalValue(frac)
        magnitude == 100 * DecimalValue(whole) + cents
    IN  IF /\ Len(parts) <= 2
           /\ AllDigits(whole) /\ AllDigits(frac)
           /\ Len(whole) + Len(frac) >= 1
           /\ Len(frac) <= 2
        THEN <<IF signed /\ t[1] = "-" THEN 0 - magnitude ELSE magnitude>>
        ELSE <<>>

\* parse_money(value): <<>> (None) or <<hundredths>>
parse_money(value) ==
    IF ~Truthy(value) THEN <<>>
    ELSE LET clean == RemoveMoneyMarks(Strip(value))
         IN  IF clean # <<>> THEN Float(clean) ELSE <<>>

\* `not amount` for an optional float: None or 0.0
FalsyAmount(amount) == amount = <<>> \/ amount = <<0>>

(* ---------------------------------------------------------------------- *)
(* Parcel ID parsing                                                       *)
(* ---------------------------------------------------------------------- *)

\* r'\d{2}\.\d{2}-\d{2}\.+-\d{3}\.\d{2}-\d{3}'
PatBlair ==
    <<D(2, 2), Lit("."), D(2, 2), Lit("-"), D(2, 2), AtLeast({"."}, 1),
      Lit("-"), D(3, 3), Lit("."), D(2, 2), Lit("-"), D(3, 3)>>

\* r'\d{2,3}-\d{2,3}-\d{3,4}\.?\d?'
PatAltPA ==
    <<D(2, 3), Lit("-"), D(2, 3), Lit("-"), D(3, 4), Item({"."}, 0, 1),
      D(0, 1)>>

\* r'\d{2}-\d{2}-\d{2}-\d{4}-\d{3}-\d{4}'
PatFL ==
    <<D(2, 2), Lit("-"), D(2, 2), Lit("-"), D(2, 2), Lit("-"), D(4, 4),
      Lit("-"), D(3, 3), Lit("-"), D(4, 4)>>

\* r'\d{5,10}'
PatTX == <<D(5, 10)>>

\* r'\d{2,3}[-\.]\d{2,3}[-\.]\d{3,4}'
PatGeneric ==
    <<D(2, 3), Item({"-", "."}, 1, 1), D(2, 3), Item({"-", "."}, 1, 1),
      D(3, 4)>>

\* r'\d{8,12}'
PatDigits == <<D(8, 12)>>

\* PARCEL_PATTERNS.get(state_code, []) + PARCEL_PATTERNS['DEFAULT'];
\* a state code is only ever a dictionary key and is kept as a string
PARCEL_PATTERNS(state_code) ==
    (CASE state_code = "PA" -> <<PatBlair, PatAltPA>>
       [] state_code = "FL" -> <<PatFL>>
       [] state_code = "TX" -> <<PatTX>>
       [] state_code = "DEFAULT" -> <<PatGeneric, PatDigits>>
       [] OTHER -> <<>>)
    \o <<PatGeneric, PatDigits>>

\* the shorter list of parse_blair_county.py
reject_patterns_blair ==
    <<<<"T", "O", "W", "N", "S", "H", "I", "P">>,
      <<"B", "O", "R", "O", "U", "G", "H">>,
      <<"C", "I", "T", "Y", " ", "O", "F">>,
      <<"C", "A", "M", "A">>,
      <<"M", "A", "P", " ", "N", "U", "M", "B", "E", "R">>>>

\* 'TOWNSHIP', 'BOROUGH', 'CITY OF', 'CAMA', 'MAP NUMBER', 'CONTROL',
\* 'OWNER', 'DESCRIPTION', 'LAND USE'
reject_patterns ==
    <<<<"T", "O", "W", "N", "S", "H", "I", "P">>,
      <<"B", "O", "R", "O", "U", "G", "H">>,
      <<"C", "I", "T", "Y", " ", "O", "F">>,
      <<"C", "A", "M", "A">>,
      <<"M", "A", "P", " ", "N", "U", "M", "B", "E", "R">>,
      <<"C", "O", "N", "T", "R", "O", "L">>,
      <<"O", "W", "N", "E", "R">>,
      <<"D", "E", "S", "C", "R", "I", "P", "T", "I", "O", "N">>,
      <<"L", "A", "N", "D", " ", "U", "S", "E">>>>

\* the first pattern of the list that is found in s: for pattern in patterns
RECURSIVE FirstMatch(_, _)
FirstMatch(s, patterns) ==
    IF patterns = <<>> THEN NoneStr
    ELSE LET m == ReSearch(s, Head(patterns))
         IN  IF m # <<>> THEN m[1] ELSE FirstMatch(s, Tail(patterns))

\* a parse_parcel_id that returns the cleaned value without validating it
parse_parcel_id_unvalidated(value, state_code) ==
    IF ~Truthy(value) THEN NoneStr
    ELSE IF Strip(value) = <<>> THEN NoneStr
    ELSE Strip(value)

\* parse_parcel_id(value, state_code): NoneStr or the matched text
parse_parcel_id(value, state_code) ==
    IF ~Truthy(value) THEN NoneStr
    ELSE LET clean_value == Strip(value)
             upper_value == Upper(clean_value)
         IN  IF ContainsAny(upper_value, reject_patterns) THEN NoneStr
             ELSE FirstMatch(RemoveWhitespace(clean_value),
                             PARCEL_PATTERNS(state_code))

(* ---------------------------------------------------------------------- *)
(* Row detection and filtering                                             *)
(* ---------------------------------------------------------------------- *)

\* str(row[i]).strip() if row[i] else ""       (i counts from 1 here)
CellText(row, i) == IF Truthy(row[i]) THEN Strip(row[i]) ELSE <<>>

\* str(row[i]).strip() if row[i] else None
CellOrNone(row, i) == IF Truthy(row[i]) THEN Strip(row[i]) ELSE NoneStr

\* str(row[0]).strip().upper() if row[0] else ""
FirstCellUpper(row) == IF Truthy(row[1]) THEN Upper(Strip(row[1])) ELSE <<>>

skip_patterns ==
    <<<<"T", "O", "W", "N", "S", "H", "I", "P">>,
      <<"B", "O", "R", "O", "U", "G", "H">>,
      <<"C", "I", "T", "Y", " ", "O", "F">>,
      <<"C", "A", "M", "A">>,
      <<"C", "O", "N", "T", "R", "O", "L">>,
      <<"R", "E", "P", "U", "T", "E", "D", " ", "O", "W", "N", "E", "R">>,
      <<"P", "R", "O", "P", "E", "R", "T", "Y", " ", "D", "E", "S", "C">>,
      <<"M", "A", "P", " ", "N", "U", "M", "B", "E", "R">>,
      <<"L", "A", "N", "D", " ", "U", "S", "E">>,
      <<"O", "W", "N", "E", "R">>,
      <<"P", "A", "R", "C", "E", "L">>,
      <<"D", "E", "S", "C", "R", "I", "P", "T", "I", "O", "N">>,
      <<"A", "M", "O", "U", "N", "T">>,
      <<"B", "I", "D">>>>

municipality_words ==
    <<<<"T", "O", "W", "N", "S", "H", "I", "P">>,
      <<"B", "O", "R", "O", "U", "G", "H">>,
      <<"C", "I", "T", "Y", " ", "O", "F">>>>

owner_name_words ==
    <<<<"L", "L", "C">>,
      <<"I", "N", "C">>,
      <<"C", "O", "R", "P">>,
      <<"T", "R", "U", "S", "T">>>>

\* is_header_or_skip_row(row)
is_header_or_skip_row(row) ==
    IF Len(row) < 2 THEN TRUE
    ELSE LET first_cell == FirstCellUpper(row)
         IN  \/ ContainsAny(first_cell, skip_patterns)
             \/ /\ ReMatch(first_cell,
                           <<AtLeast(UpperLetters \cup Whitespace, 1)>>, "$")
                /\ Len(first_cell) > 5
                /\ ~ContainsAny(first_cell, owner_name_words)

\* the marker kept as printed, as parse_blair_county.py keeps it
extract_municipality_as_printed(row) ==
    IF row = <<>> THEN NoneStr
    ELSE IF ContainsAny(FirstCellUpper(row), municipality_words)
    THEN Strip(CellText(row, 1))
    ELSE NoneStr

\* extract_municipality(row): NoneStr or the upper-cased first cell
extract_municipality(row) ==
    IF row = <<>> THEN NoneStr
    ELSE LET first_cell == FirstCellUpper(row)
         IN  IF ContainsAny(first_cell, municipality_words) THEN first_cell
             ELSE NoneStr

(* ---------------------------------------------------------------------- *)
(* Format detection                                                        *)
(* ---------------------------------------------------------------------- *)

\* the length of page text that detection reads: page_text.upper()[:500]
DetectTextLen == 500

\* ' '.join([str(c).upper() if c else '' for c in first_row])
RECURSIVE HeaderText(_)
HeaderText(first_row) ==
    IF first_row = <<>> THEN <<>>
    ELSE LET c == IF Truthy(Head(first_row)) THEN Upper(Head(first_row))
                  ELSE <<>>
         IN  IF Len(first_row) = 1 THEN c
             ELSE c \o <<" ">> \o HeaderText(Tail(first_row))

Prefix(s, n) == SubSeq(s, 1, IF Len(s) < n THEN Len(s) ELSE n)

W_CAMA == <<"C", "A", "M", "A">>
W_REPUTED_OWNER == <<"R", "E", "P", "U", "T", "E", "D", " ", "O", "W", "N", "E", "R">>
W_WINNING_BID == <<"W", "I", "N", "N", "I", "N", "G", " ", "B", "I", "D">>
W_WINNING_BIDDER == <<"W", "I", "N", "N", "I", "N", "G", " ", "B", "I", "D", "D", "E", "R">>
W_UPSET == <<"U", "P", "S", "E", "T">>
W_APPROXIMATE == <<"A", "P", "P", "R", "O", "X", "I", "M", "A", "T", "E">>
W_REPOSITORY == <<"R", "E", "P", "O", "S", "I", "T", "O", "R", "Y">>
W_JUDICIAL == <<"J", "U", "D", "I", "C", "I", "A", "L">>

\* detection that looks for the words of the upset list first
detect_pdf_format_upset_first(first_row, page_text) ==
    LET header_text == HeaderText(first_row)
        full_text == Upper(header_text \o <<" ">>
                           \o Prefix(Upper(page_text), DetectTextLen))
    IN  IF Contains(full_text, W_UPSET) \/ Contains(full_text, W_APPROXIMATE)
        THEN "upset"
        ELSE IF Contains(full_text, W_CAMA) /\ Contains(full_text, W_REPUTED_OWNER)
        THEN "repository"
        ELSE IF \/ Contains(full_text, W_WINNING_BID)
                \/ Contains(full_text, W_WINNING_BIDDER)
        THEN "judicial"
        ELSE IF Contains(full_text, W_REPOSITORY) THEN "repository"
        ELSE IF Contains(full_text, W_JUDICIAL) THEN "judicial"
        ELSE "unknown"

\* detect_pdf_format(first_row, page_text)
detect_pdf_format(first_row, page_text) ==
    LET header_text == HeaderText(first_row)
        full_text == Upper(header_text \o <<" ">>
                           \o Prefix(Upper(page_text), DetectTextLen))
    IN  IF Contains(full_text, W_CAMA) /\ Contains(full_text, W_REPUTED_OWNER)
        THEN "repository"
        ELSE IF \/ Contains(full_text, W_WINNING_BID)
                \/ Contains(full_text, W_WINNING_BIDDER)
        THEN "judicial"
        ELSE IF Contains(full_text, W_UPSET) \/ Contains(full_text, W_APPROXIMATE)
        THEN "upset"
        ELSE IF Contains(full_text, W_REPOSITORY) THEN "repository"
        ELSE IF Contains(full_text, W_JUDICIAL) THEN "judicial"
        ELSE "unknown"

(* ---------------------------------------------------------------------- *)
(* Format-specific parsers: <<>> (None) or <<record>>.  confidence is in   *)
(* hundredths.                                                             *)
(* ---------------------------------------------------------------------- *)

CONF_FORMAT == 95
CONF_GENERIC == 70
CONF_TEXT == 50

\* a CAMA pattern that takes 6 digits too
PatCamaSixToEight == <<D(6, 8)>>

\* r'^\d{7,8}$'
PatCama == <<D(7, 8)>>

\* a control number pattern that takes 2 digits before the dash too
PatControlShort == <<D(2, 3), Lit("-"), D(6, 6)>>

\* r'^\d{3}-\d{6}$'
PatControl == <<D(3, 3), Lit("-"), D(6, 6)>>

Not_Sold == <<"N", "o", "t", " ", "S", "o", "l", "d">>

\* parse_repository_row(row, state_code, municipality)
parse_repository_row(row, state_code, municipality) ==
    IF Len(row) < 4 THEN <<>>
    ELSE LET cama_num == CellText(row, 1)
             owner == CellOrNone(row, 2)
             address == CellOrNone(row, 3)
             map_number == CellText(row, 4)
             parcel_id == parse_parcel_id(map_number, state_code)
         IN  IF ~ReMatch(cama_num, PatCama, "$") THEN <<>>
             ELSE IF ~Truthy(parcel_id) THEN <<>>
             ELSE <<[parcel_id |-> parcel_id,
                     address |-> address,
                     owner |-> owner,
                     city |-> municipality,
                     total_due |-> <<>>,
                     confidence |-> CONF_FORMAT]>>

\* parse_judicial_row(row, state_code)
parse_judicial_row(row, state_code) ==
    IF Len(row) < 5 THEN <<>>
    ELSE LET control_num == CellText(row, 2)
             owner0 == CellOrNone(row, 3)
             map_number == CellText(row, 4)
             address0 == CellOrNone(row, 5)
             winning_bid == IF Len(row) > 6 THEN CellOrNone(row, 7) ELSE NoneStr
             owner == IF Truthy(owner0) THEN clean_spaced_text(owner0) ELSE owner0
             address == IF Truthy(address0) THEN clean_spaced_address(address0)
                        ELSE address0
             parcel_id == parse_parcel_id(map_number, state_code)
             total_due == IF Truthy(winning_bid) /\ winning_bid # Not_Sold
                          THEN parse_money(winning_bid)
                          ELSE <<>>
         IN  IF ~ReMatch(control_num, PatControl, "$") THEN <<>>
             ELSE IF ~Truthy(parcel_id) THEN <<>>
             ELSE <<[parcel_id |-> parcel_id,
                     address |-> address,
                     owner |-> owner,
                     city |-> NoneStr,
                     total_due |-> total_due,
                     confidence |-> CONF_FORMAT]>>

\* parse_upset_row(row, state_code, municipality)
parse_upset_row(row, state_code, municipality) ==
    IF Len(row) < 6 THEN <<>>
    ELSE LET control_num == CellText(row, 2)
             owner0 == CellOrNone(row, 3)
             map_number == CellText(row, 4)
             address0 == CellOrNone(row, 5)
             upset_amount == CellOrNone(row, 6)
             owner == IF Truthy(owner0) THEN clean_spaced_text(owner0) ELSE owner0
             address == IF Truthy(address0) THEN clean_spaced_address(address0)
                        ELSE address0
             parcel_id == parse_parcel_id(map_number, state_code)
             total_due == IF Truthy(upset_amount) THEN parse_money(upset_amount)
                          ELSE <<>>
         IN  IF ~ReMatch(control_num, PatControl, "$") THEN <<>>
             ELSE IF ~Truthy(parcel_id) THEN <<>>
             ELSE <<[parcel_id |-> parcel_id,
                     address |-> address,
                     owner |-> owner,
                     city |-> municipality,
                     total_due |-> total_due,
                     confidence |-> CONF_FORMAT]>>

street_suffixes ==
    <<<<"S", "T">>,
      <<"A", "V", "E">>,
      <<"R", "D">>,
      <<"D", "R">>,
      <<"L", "N">>,
      <<"C", "T">>,
      <<"W", "A", "Y">>,
      <<"B", "L", "V", "D">>>>

\* re.search(r'\d+.*(?:ST|AVE|RD|DR|LN|CT|WAY|BLVD)', s): a digit, then a
\* suffix later on the same line
LooksLikeAddress(s) ==
    \E i \in 1..Len(s) : \E j \in (i + 1)..Len(s) :
        /\ s[i] \in Digits
        /\ \A m \in (i + 1)..(j - 1) : s[m] # "\n"
        /\ \E k \in 1..Len(street_suffixes) : OccursAt(s, j, street_suffixes[k])

\* r'^[A-Z\s&,\.]+$'
PatOwner == <<AtLeast(UpperLetters \cup Whitespace \cup {"&", ",", "."}, 1)>>

\* one round of the for loop of parse_generic_row over a cell
GenericCell(acc, cell, state_code) ==
    IF ~Truthy(cell) THEN acc
    ELSE LET cell_str == Strip(cell)
             parcel_id == IF ~Truthy(acc.parcel_id)
                          THEN parse_parcel_id(cell_str, state_code)
                          ELSE acc.parcel_id
             amount == IF FalsyAmount(acc.amount) /\ Contains(cell_str, <<"$">>)
                       THEN parse_money(cell_str)
                       ELSE acc.amount
             address == IF ~Truthy(acc.address) /\ LooksLikeAddress(Upper(cell_str))
                        THEN clean_spaced_address(cell_str)
                        ELSE acc.address
             owner == IF /\ ~Truthy(acc.owner)
                         /\ ReMatch(cell_str, PatOwner, "$")
                         /\ Len(cell_str) > 5
                         /\ ~ContainsAny(Upper(cell_str), municipality_words)
                      THEN clean_spaced_text(cell_str)
                      ELSE acc.owner
         IN  [parcel_id |-> parcel_id, address |-> address, owner |-> owner,
              amount |-> amount]

RECURSIVE GenericCells(_, _, _)
GenericCells(acc, cells, state_code) ==
    IF cells = <<>> THEN acc
    ELSE GenericCells(GenericCell(acc, Head(cells), state_code), Tail(cells),
                      state_code)

\* a generic parser that rates its records like a format-specific one
parse_generic_row_rated_format(row, state_code, municipality) ==
    LET found == GenericCells([parcel_id |-> NoneStr, address |-> NoneStr,
                               owner |-> NoneStr, amount |-> <<>>],
                              row, state_code)
    IN  IF ~Truthy(found.parcel_id) THEN <<>>
        ELSE <<[parcel_id |-> found.parcel_id,
                address |-> found.address,
                owner |-> found.owner,
                city |-> municipality,
                total_due |-> found.amount,
                confidence |-> CONF_FORMAT]>>

\* parse_generic_row(row, state_code, municipality)
parse_generic_row(row, state_code, municipality) ==
    LET found == GenericCells([parcel_id |-> NoneStr, address |-> NoneStr,
                               owner |-> NoneStr, amount |-> <<>>],
                              row, state_code)
    IN  IF ~Truthy(found.parcel_id) THEN <<>>
        ELSE <<[parcel_id |-> found.parcel_id,
                address |-> found.address,
                owner |-> found.owner,
                city |-> municipality,
                total_due |-> found.amount,
                confidence |-> CONF_GENERIC]>>

(* ---------------------------------------------------------------------- *)
(* The documents of the model: rows and page texts as pdfplumber returns   *)
(* them (a cell is text or None)                                           *)
(* ---------------------------------------------------------------------- *)

\* the column header of a repository list
RowRepositoryHeader ==
    <<<<"C", "A", "M", "A", "#">>,
      <<"R", "E", "P", "U", "T", "E", "D", " ", "O", "W", "N", "E", "R">>,
      <<"A", "D", "D", "R", "E", "S", "S">>,
      <<"M", "A", "P", " ", "N", "U", "M", "B", "E", "R">>,
      <<"L", "A", "N", "D", " ", "U", "S", "E">>>>

\* a repository row
RowRepositoryData ==
    <<<<"1", "2", "3", "4", "5", "6", "7", "8">>,
      <<"S", "M", "I", "T", "H", " ", "J", "O", "H", "N">>,
      <<"1", "2", "3", " ", "M", "A", "I", "N", " ", "S", "T">>,
      <<"0", "1", ".", "0", "5", "-", "1", "6", ".", ".", "-", "0", "9",
        "3", ".", "0", "0", "-", "0", "0", "0">>,
      <<"R", "e", "s", "i", "d", "e", "n", "t", "i", "a", "l">>>>

\* the column header of a judicial list
RowJudicialHeader ==
    <<NoneStr,
      <<"C", "o", "n", "t", "r", "o", "l", " ", "N", "o">>,
      <<"O", "w", "n", "e", "r">>,
      <<"M", "a", "p", " ", "N", "o">>,
      <<"D", "e", "s", "c", "r", "i", "p", "t", "i", "o", "n">>,
      <<"L", "a", "n", "d", " ", "U", "s", "e">>,
      <<"W", "i", "n", "n", "i", "n", "g", " ", "B", "i", "d">>,
      <<"W", "i", "n", "n", "e", "r">>>>

\* a judicial row that was not sold
RowJudicialData ==
    <<<<"*">>,
      <<"0", "0", "1", "-", "1", "2", "3", "4", "5", "6">>,
      <<"B", " ", "A", " ", "R", " ", "N", " ", "E", "R", " ", "D", "A",
        "V", "I", "D", " ", "W">>,
      <<"0", "1", ".", "0", "5", "-", "1", "6", ".", ".", "-", "0", "9",
        "3", ".", "0", "0", "-", "0", "0", "0">>,
      <<"8", " ", "1", " ", "5", " ", "3", "R", "D", " ", "A", "V", "E">>,
      <<"R">>,
      <<"N", "o", "t", " ", "S", "o", "l", "d">>,
      NoneStr>>

\* an upset row
RowUpsetData ==
    <<NoneStr,
      <<"0", "0", "2", "-", "6", "5", "4", "3", "2", "1">>,
      <<"J", "O", "N", "E", "S", " ", "M", "A", "R", "Y">>,
      <<"0", "1", ".", "0", "2", "-", "0", "7", ".", ".", "-", "0", "3",
        "4", ".", "0", "0", "-", "0", "0", "0">>,
      <<"4", "4", " ", "E", "L", "M", " ", "R", "D">>,
      <<"$", "1", ",", "2", "3", "4", ".", "5", "6">>>>

\* an upset row whose amount cell is a credit
RowUpsetCredit ==
    <<NoneStr,
      <<"0", "0", "3", "-", "0", "0", "0", "1", "1", "1">>,
      <<"A", "C", "M", "E", " ", "L", "L", "C">>,
      <<"0", "9", ".", "0", "0", "-", "0", "4", ".", ".", "-", "0", "4",
        "8", ".", "0", "1", "-", "0", "0", "2">>,
      <<"9", " ", "O", "A", "K", " ", "L", "N">>,
      <<"-", "$", "5", "0", ".", "0", "0">>>>

\* a municipality header as the lists print it
RowMunicipality ==
    <<<<" ", "L", "o", "g", "a", "n", " ", "T", "o", "w", "n", "s", "h",
        "i", "p">>,
      NoneStr,
      NoneStr,
      NoneStr,
      NoneStr,
      NoneStr>>

\* a municipality header in a two-column table
RowShortMunicipality ==
    <<<<"T", "Y", "R", "O", "N", "E", " ", "B", "O", "R", "O", "U", "G",
        "H">>,
      NoneStr>>

\* a section header with a parcel number beside it
RowSection ==
    <<<<"P", "A", "R", "C", "E", "L">>,
      <<"O", "W", "N", "E", "R">>,
      <<"1", "2", "-", "3", "4", "5", "-", "6", "7", "8">>>>

\* a row of an unmodelled county: parcel first, two amounts
RowLoose ==
    <<<<"1", "2", "-", "3", "4", "5", "-", "6", "7", "8">>,
      <<"A", "C", "M", "E", " ", "L", "L", "C">>,
      <<"$", "0", ".", "0", "0">>,
      <<"$", "7", "5", ".", "0", "0">>>>

Rows ==
    {RowRepositoryHeader,
     RowRepositoryData,
     RowJudicialHeader,
     RowJudicialData,
     RowUpsetData,
     RowUpsetCredit,
     RowMunicipality,
     RowShortMunicipality,
     RowSection,
     RowLoose}

\* a page without extractable text
TextEmpty ==
    <<>>

\* the text of an upset list page
TextUpset ==
    <<"U", "p", "s", "e", "t", " ", "S", "a", "l", "e", "\n", "1", "2", "-",
    "3", "4", "5", "-", "6", "7", "8", " ", "S", "M", "I", "T", "H">>

\* a page whose only parcel number shares its line with a column title
TextOwnerLine ==
    <<"P", "a", "g", "e", " ", "2", "\n", "O", "W", "N", "E", "R", " ", "1",
    "2", "-", "3", "4", "5", "-", "6", "7", "8">>

PageTexts == {TextEmpty, TextUpset, TextOwnerLine}

\* the texts of the pages that have tables
TablePageTexts == {TextEmpty, TextUpset}

StateCodes == {"PA"}

\* the sale types parse_document derives from a document title
SaleTypes == {"repository", "judicial", "upset", "unknown"}

\* parse_document passes no sale date
SaleDates == {NoneStr}

\* datetime.now().year, read once per record; one parse sees one year
Years == {2026}

\* the number of rows and text lines of a document
MaxUnits == 3

\* the number of pages of a document
MaxPages == MaxUnits - 1

(* ---------------------------------------------------------------------- *)
(* The parts of parse_pdf that read no state                               *)
(* ---------------------------------------------------------------------- *)

\* the parser the if/elif chain of the try block selects
ParserFor(format) ==
    IF format \in {"repository", "judicial", "upset"} THEN format ELSE "generic"

\* prop = parse_<parser>_row(...)
ParseRow(row, parser, code, municipality) ==
    CASE parser = "repository" -> parse_repository_row(row, code, municipality)
      [] parser = "judicial" -> parse_judicial_row(row, code)
      [] parser = "upset" -> parse_upset_row(row, code, municipality)
      [] OTHER -> parse_generic_row(row, code, municipality)

\* ' | '.join([str(c) for c in row if c])
RECURSIVE RawText(_)
RawText(row) ==
    IF row = <<>> THEN <<>>
    ELSE IF ~Truthy(Head(row)) THEN RawText(Tail(row))
    ELSE LET rest == RawText(Tail(row))
         IN  IF rest = <<>> THEN Head(row)
             ELSE Head(row) \o <<" ", "|", " ">> \o rest

\* some pattern of the state matches a substring of the text as printed
HasParcelPattern(text, code) ==
    \E k \in 1..Len(PARCEL_PATTERNS(code)) :
        ReSearch(text, PARCEL_PATTERNS(code)[k]) # <<>>

(* ---------------------------------------------------------------------- *)
(* The functions above, tabulated once over the rows, texts and arguments  *)
(* of the model; parse_pdf below reads the tables.                         *)
(* ---------------------------------------------------------------------- *)

\* the function k |-> F(k) on keys, computed entry by entry
Table(F(_), keys) == [k \in keys |-> F(k)] @@ <<>>

\* the values current_municipality takes
Municipalities == {NoneStr} \cup {extract_municipality(row) : row \in Rows}

Parsers == {"repository", "judicial", "upset", "generic"}

Municipality == Table(extract_municipality, Rows)

HeaderOrSkip == Table(is_header_or_skip_row, Rows)

DetectedIn(row) == Table(LAMBDA text : detect_pdf_format(row, text), PageTexts)

Detected == Table(DetectedIn, Rows)

LinesOfText(text) == IF text # <<>> THEN SplitOn(text, "\n") ELSE <<>>

LinesOf == Table(LinesOfText, PageTexts)

Lines == UNION {{LinesOf[text][i] : i \in 1..Len(LinesOf[text])} : text \in PageTexts}

ParcelOfLineIn(line) == Table(LAMBDA code : parse_parcel_id(line, code), StateCodes)

ParcelOfLine == Table(ParcelOfLineIn, Lines)

HasPatternIn(line) == Table(LAMBDA code : HasParcelPattern(line, code), StateCodes)

LineHasPattern == Table(HasPatternIn, Lines)

RawTextOf == Table(RawText, Rows)

ParsedWith(row, parser, code) ==
    Table(LAMBDA municipality : ParseRow(row, parser, code, municipality),
          Municipalities)

ParsedBy(row, parser) ==
    Table(LAMBDA code : ParsedWith(row, parser, code), StateCodes)

ParsedRow(row) == Table(LAMBDA parser : ParsedBy(row, parser), Parsers)

\* Parsed[row][parser][state_code][municipality]
Parsed == Table(ParsedRow, Rows)

(* ---------------------------------------------------------------------- *)
(* parse_pdf                                                               *)
(* ---------------------------------------------------------------------- *)

VARIABLES
    state_code,             \* argument of parse_pdf
    sale_type,              \* argument of parse_pdf
    sale_date,              \* argument of parse_pdf
    tax_year,               \* the year the clock shows
    pc,                     \* where parse_pdf is: pages, rows, lines, done
    page_num,               \* enumerate(pdf.pages, 1)
    page_text,              \* page.extract_text() or "" of the current page
    lines,                  \* the lines of page_text still to scan
    row_idx,                \* enumerate(table): index of the next row
    pdf_format,             \* "None" until detection
    current_municipality,
    properties,
    n_units,                \* the rows and text lines read so far
    last,                   \* the unit read last and what became of it
    paths,                  \* for each record, the parser path that made it
    last_marker,            \* the first cell, as printed, of the marker row seen last
    tables_seen,            \* some page so far had tables
    scanned,                \* the text lines scanned so far, in order
    table_pages,            \* the numbers of the pages that had tables
    detection,              \* the runs of detect_pdf_format so far
    document,               \* pdf.pages, when the document is fixed ahead
    table_idx,              \* for table in tables: the number of the table
    visited,                \* the positions read of a fixed document
    pending,                \* the function about to be called on its own
    called,                 \* the function called on its own, "none" before
    raw_value,              \* the value it is called with
    returned,               \* what it returned
    docs,                   \* the running parse_document calls, <<>> if none
    disk                    \* the files of the working directory, by name

vars ==
    <<state_code, sale_type, sale_date, tax_year, pc, page_num, page_text,
      lines, row_idx, pdf_format, current_municipality, properties,
      n_units, last, paths, last_marker, tables_seen, scanned,
      table_pages, detection, document, table_idx, visited,
      pending, called, raw_value, returned, docs, disk>>

\* the variables of the parse_document calls
doc_vars == <<docs, disk>>

\* the variables of a function called on its own
call_vars == <<pending, called, raw_value, returned>>

\* the locals of parse_pdf and what the model remembers of the document
parse_vars ==
    <<pc, page_num, page_text, lines, row_idx, pdf_format,
      current_municipality, properties, n_units, last, paths, last_marker,
      tables_seen, scanned, table_pages, detection, table_idx, visited>>

\* pdf_path and the other arguments of parse_pdf
args == <<state_code, sale_type, sale_date, tax_year, document>>

\* a document whose pages and rows are chosen as they are read
FreeDocument == [fixed |-> FALSE, pages |-> <<>>]

\* the pages of pdf_path are known before the parse
Fixed == document.fixed

\* the page the page loop takes next
NextPage == document.pages[page_num + 1]

\* tables = page.extract_tables() of the current page
CurrentTables == document.pages[page_num].tables

\* the table the row loop walks
CurrentTable == CurrentTables[table_idx]

\* detect_pdf_format has not run
NoDetection == [runs |-> 0, result |-> "none", units_before |-> 0,
                records_before |-> 0]

NoUnit == [kind |-> "none", row |-> <<>>, line |-> <<>>, outcome |-> "none",
           parser |-> "none"]

\* properties = []; current_municipality = None; pdf_format = None
Entered ==
    /\ pc = "pages"
    /\ page_num = 0
    /\ page_text = <<>>
    /\ lines = <<>>
    /\ row_idx = 0
    /\ pdf_format = "None"
    /\ current_municipality = NoneStr
    /\ properties = <<>>
    /\ n_units = 0
    /\ last = NoUnit
    /\ paths = <<>>
    /\ last_marker = NoneStr
    /\ tables_seen = FALSE
    /\ scanned = <<>>
    /\ table_pages = {}
    /\ detection = NoDetection
    /\ table_idx = 0
    /\ visited = <<>>

\* parse_pdf(pdf_path, state_code, sale_type, sale_date) is entered
Init ==
    /\ state_code \in StateCodes
    /\ sale_type \in SaleTypes
    /\ sale_date \in SaleDates
    /\ tax_year \in Years
    /\ document = FreeDocument
    /\ Entered
    /\ pending = "none"
    /\ called = "none"
    /\ raw_value = NoneStr
    /\ returned = NoneStr
    /\ docs = <<>>
    /\ disk = <<>>

\* for page_num, page in enumerate(pdf.pages, 1): a page with tables;
\* the first table of the page is entered
OpenTablePage ==
    /\ pc = "pages"
    /\ IF Fixed
       THEN /\ page_num < Len(document.pages)
            /\ NextPage.tables # <<>>
            /\ page_text' = NextPage.text
       ELSE /\ page_num < MaxPages
            /\ n_units < MaxUnits
            /\ \E text \in TablePageTexts : page_text' = text
    /\ page_num' = page_num + 1
    /\ pc' = "rows"
    /\ table_idx' = 1
    /\ row_idx' = 0
    /\ tables_seen' = TRUE
    /\ table_pages' = table_pages \cup {page_num + 1}
    /\ UNCHANGED <<args, call_vars, doc_vars, detection, visited, lines, pdf_format, current_municipality, properties,
                   n_units, last, paths, last_marker, scanned>>

\* a page for which extract_tables() returns nothing: the else branch
OpenTextPage ==
    /\ pc = "pages"
    /\ IF Fixed
       THEN /\ page_num < Len(document.pages)
            /\ NextPage.tables = <<>>
            /\ page_text' = NextPage.text
            /\ lines' = LinesOf[NextPage.text]
       ELSE /\ page_num < MaxPages
            /\ \E text \in PageTexts :
                  /\ Len(LinesOf[text]) <= MaxUnits - n_units
                  /\ page_text' = text
                  /\ lines' = LinesOf[text]
    /\ page_num' = page_num + 1
    /\ pc' = "lines"
    /\ UNCHANGED <<args, call_vars, doc_vars, table_pages, detection, table_idx, visited, row_idx, pdf_format, current_municipality, properties,
                   n_units, last, paths, last_marker, tables_seen, scanned>>

\* for table in tables: the rows of a table are exhausted, the next one starts
NextTable ==
    /\ pc = "rows"
    /\ IF Fixed
       THEN row_idx = Len(CurrentTable) /\ table_idx < Len(CurrentTables)
       ELSE row_idx > 0 /\ n_units < MaxUnits
    /\ table_idx' = table_idx + 1
    /\ row_idx' = 0
    /\ UNCHANGED <<args, call_vars, doc_vars, table_pages, detection, visited, pc, page_num, page_text, lines, pdf_format,
                   current_municipality, properties, n_units, last,
                   paths, last_marker, tables_seen, scanned>>

\* a page loop that scans the text of a page after its tables too
ClosePageThenScan ==
    /\ \/ /\ pc = "rows" /\ row_idx > 0
          /\ pc' = "lines"
          /\ lines' = LinesOf[page_text]
       \/ /\ pc = "lines" /\ lines = <<>>
          /\ pc' = "pages"
          /\ UNCHANGED lines
    /\ UNCHANGED <<args, call_vars, doc_vars, table_pages, detection, table_idx, visited, page_num, page_text, row_idx, pdf_format,
                   current_municipality, properties, n_units,
                   last, paths, last_marker, tables_seen, scanned>>

\* the tables, or the lines, of the page are exhausted
ClosePage ==
    /\ \/ /\ pc = "rows"
          /\ IF Fixed
             THEN row_idx = Len(CurrentTable) /\ table_idx = Len(CurrentTables)
             ELSE row_idx > 0
       \/ pc = "lines" /\ lines = <<>>
    /\ pc' = "pages"
    /\ UNCHANGED <<args, call_vars, doc_vars, table_pages, detection, table_idx, visited, page_num, page_text, lines, row_idx, pdf_format,
                   current_municipality, properties, n_units,
                   last, paths, last_marker, tables_seen, scanned>>

\* return properties
Return ==
    /\ pc = "pages"
    /\ Fixed => page_num = Len(document.pages)
    /\ pc' = "done"
    /\ UNCHANGED <<args, call_vars, doc_vars, table_pages, detection, table_idx, visited, page_num, page_text, lines, row_idx, pdf_format,
                   current_municipality, properties, n_units,
                   last, paths, last_marker, tables_seen, scanned>>

\* detection on row 0 of every table of page 1, whatever pdf_format is
DetectingOnEveryFirstRow == page_num = 1 /\ row_idx = 0

\* page_num == 1 and row_idx == 0 and pdf_format is None
Detecting == page_num = 1 /\ row_idx = 0 /\ pdf_format = "None"

\* pdf_format after the detection block, for a row that reaches it
FormatAfter(row) ==
    IF Detecting
    THEN LET detected == Detected[row][page_text]
         IN  IF detected = "unknown" THEN sale_type ELSE detected
    ELSE pdf_format

\* what is known of the runs of detect_pdf_format after a row of that class:
\* a row of fewer than 3 cells does not reach the detection block
DetectionAfter(row, class) ==
    IF Detecting /\ class # "short"
    THEN [runs |-> detection.runs + 1,
          result |-> Detected[row][page_text],
          units_before |-> n_units,
          records_before |-> Len(properties)]
    ELSE detection

\* a loop body without the is_header_or_skip_row check
ClassifyWithoutHeaderSkip(row) ==
    IF row = <<>> \/ Len(row) < 3 THEN "short"
    ELSE IF Detecting /\ FormatAfter(row) \in {"repository", "judicial"}
    THEN "column_header"
    ELSE IF Truthy(Municipality[row]) THEN "municipality"
    ELSE "data"

\* a loop body that discards the row of detection whatever the format is
ClassifyDiscardsDetectionRow(row) ==
    IF row = <<>> \/ Len(row) < 3 THEN "short"
    ELSE IF Detecting THEN "column_header"
    ELSE IF Truthy(Municipality[row]) THEN "municipality"
    ELSE IF HeaderOrSkip[row] THEN "header_skip"
    ELSE "data"

\* what the loop body does with a row before the try block
Classify(row) ==
    IF row = <<>> \/ Len(row) < 3 THEN "short"
    ELSE IF Detecting /\ FormatAfter(row) \in {"repository", "judicial"}
    THEN "column_header"
    ELSE IF Truthy(Municipality[row]) THEN "municipality"
    ELSE IF HeaderOrSkip[row] THEN "header_skip"
    ELSE "data"

\* prop['sale_type'] = ...; prop['sale_date'] = ...; prop['tax_year'] = ...;
\* prop['raw_text'] = ...
Attach(prop, row) ==
    [parcel_id |-> prop.parcel_id,
     address |-> prop.address,
     owner |-> prop.owner,
     city |-> prop.city,
     total_due |-> prop.total_due,
     confidence |-> prop.confidence,
     sale_type |-> sale_type,
     sale_date |-> sale_date,
     tax_year |-> tax_year,
     raw_text |-> RawTextOf[row]]

\* properties.insert(0, prop)
EmitFirst(props, prop) == <<prop>> \o props

\* properties.append(prop)
Emit(props, prop) == Append(props, prop)

\* a bare-text record rated like a record of the generic parser
TextRecordRatedGeneric(parcel, line) ==
    [parcel_id |-> parcel,
     address |-> NoneStr,
     owner |-> NoneStr,
     total_due |-> <<>>,
     sale_type |-> sale_type,
     sale_date |-> sale_date,
     tax_year |-> tax_year,
     raw_text |-> line,
     confidence |-> CONF_GENERIC]

\* the record of the bare-text fallback
TextRecord(parcel, line) ==
    [parcel_id |-> parcel,
     address |-> NoneStr,
     owner |-> NoneStr,
     total_due |-> <<>>,
     sale_type |-> sale_type,
     sale_date |-> sale_date,
     tax_year |-> tax_year,
     raw_text |-> line,
     confidence |-> CONF_TEXT]

\* what every step over a row does: enumerate moves on
ReadRow(row, class, outcome, parser) ==
    /\ IF Fixed
       THEN row_idx < Len(CurrentTable) /\ row = CurrentTable[row_idx + 1]
       ELSE n_units < MaxUnits
    /\ Classify(row) = class
    /\ row_idx' = row_idx + 1
    /\ n_units' = n_units + 1
    /\ last' = [kind |-> "row", row |-> row, line |-> <<>>,
                outcome |-> outcome, parser |-> parser]
    /\ detection' = DetectionAfter(row, class)
    /\ visited' = IF Fixed
                  THEN Append(visited, <<page_num, table_idx, row_idx + 1>>)
                  ELSE visited
    /\ UNCHANGED <<args, call_vars, doc_vars, table_pages, table_idx, pc, page_num, page_text, lines, tables_seen, scanned>>

\* if not row or len(row) < 3: continue
SkipShortRow ==
    /\ pc = "rows"
    /\ \E row \in Rows : ReadRow(row, "short", "short", "none")
    /\ UNCHANGED <<pdf_format, current_municipality, properties, paths,
                   last_marker>>

\* detection on the first row; repository/judicial: the row is the header
DiscardColumnHeader ==
    /\ pc = "rows"
    /\ \E row \in Rows :
          /\ ReadRow(row, "column_header", "column_header", "none")
          /\ pdf_format' = FormatAfter(row)
    /\ UNCHANGED <<current_municipality, properties, paths, last_marker>>

\* if municipality: current_municipality = municipality; continue
MunicipalityRow ==
    /\ pc = "rows"
    /\ \E row \in Rows :
          /\ ReadRow(row, "municipality", "municipality", "none")
          /\ pdf_format' = FormatAfter(row)
          /\ current_municipality' = Municipality[row]
          /\ last_marker' = row[1]
    /\ UNCHANGED <<properties, paths>>

\* a header row that resets the municipality
SkipHeaderRowForgetsCity ==
    /\ pc = "rows"
    /\ \E row \in Rows :
          /\ ReadRow(row, "header_skip", "header_skip", "none")
          /\ pdf_format' = FormatAfter(row)
    /\ current_municipality' = NoneStr
    /\ UNCHANGED <<properties, paths, last_marker>>

\* if is_header_or_skip_row(row): continue
SkipHeaderRow ==
    /\ pc = "rows"
    /\ \E row \in Rows :
          /\ ReadRow(row, "header_skip", "header_skip", "none")
          /\ pdf_format' = FormatAfter(row)
    /\ UNCHANGED <<current_municipality, properties, paths, last_marker>>

\* the row parser of the try block applied to a data row: <<>> or <<prop>>
Prop(row) ==
    Parsed[row][ParserFor(FormatAfter(row))][state_code][current_municipality]

\* the try block, when the parser returns a record
ParseRowEmit ==
    /\ pc = "rows"
    /\ \E row \in Rows : \E prop \in {Prop(row)} :
          /\ ReadRow(row, "data", "record", ParserFor(FormatAfter(row)))
          /\ prop # <<>>
          /\ pdf_format' = FormatAfter(row)
          /\ properties' = Emit(properties, Attach(prop[1], row))
          /\ paths' = Append(paths, ParserFor(FormatAfter(row)))
    /\ UNCHANGED <<current_municipality, last_marker>>

\* a try block that hands a row its own parser returns None for to the
\* generic parser
ParseRowRejectThenGeneric ==
    /\ pc = "rows"
    /\ \E row \in Rows :
          \E prop \in {Parsed[row]["generic"][state_code][current_municipality]} :
             /\ ReadRow(row, "data", "rejected", ParserFor(FormatAfter(row)))
             /\ Prop(row) = <<>>
             /\ pdf_format' = FormatAfter(row)
             /\ IF prop = <<>>
                THEN UNCHANGED <<properties, paths>>
                ELSE /\ properties' = Emit(properties, Attach(prop[1], row))
                     /\ paths' = Append(paths, "generic")
    /\ UNCHANGED <<current_municipality, last_marker>>

\* the try block, when the parser returns None
ParseRowReject ==
    /\ pc = "rows"
    /\ \E row \in Rows :
          /\ ReadRow(row, "data", "rejected", ParserFor(FormatAfter(row)))
          /\ Prop(row) = <<>>
          /\ pdf_format' = FormatAfter(row)
    /\ UNCHANGED <<current_municipality, properties, paths, last_marker>>

\* a loop body without the except clause: the exception leaves parse_pdf
ParseRowErrorAborts ==
    /\ pc = "rows"
    /\ n_units < MaxUnits
    /\ \E row \in Rows :
          /\ Classify(row) = "data"
          /\ pdf_format' = FormatAfter(row)
          /\ last' = [kind |-> "row", row |-> row, line |-> <<>>,
                      outcome |-> "exception",
                      parser |-> ParserFor(FormatAfter(row))]
          /\ detection' = DetectionAfter(row, "data")
    /\ pc' = "done"
    /\ n_units' = n_units + 1
    /\ UNCHANGED <<args, call_vars, doc_vars, table_pages, table_idx, visited, page_num, page_text, lines, row_idx,
                   current_municipality, properties, paths, last_marker,
                   tables_seen, scanned>>

\* the try block, when a statement of it raises: except Exception: continue
ParseRowError ==
    /\ pc = "rows"
    /\ \E row \in Rows :
          /\ ReadRow(row, "data", "exception", ParserFor(FormatAfter(row)))
          /\ pdf_format' = FormatAfter(row)
    /\ UNCHANGED <<current_municipality, properties, paths, last_marker>>

\* what every step over a text line does: for line in lines
ReadLine(outcome) ==
    /\ pc = "lines"
    /\ lines # <<>>
    /\ Fixed \/ n_units < MaxUnits
    /\ lines' = Tail(lines)
    /\ n_units' = n_units + 1
    /\ last' = [kind |-> "line", row |-> <<>>, line |-> Head(lines),
                outcome |-> outcome, parser |-> "text"]
    /\ scanned' = Append(scanned, Head(lines))
    /\ visited' = IF Fixed
                  THEN Append(visited, <<page_num, 0,
                                         Len(LinesOf[page_text]) - Len(lines) + 1>>)
                  ELSE visited
    /\ UNCHANGED <<args, call_vars, doc_vars, table_pages, detection, table_idx, pc, page_num, page_text, row_idx, pdf_format,
                   current_municipality, last_marker, tables_seen>>

\* parcel = parse_parcel_id(line, state_code); if parcel: properties.append
ScanLineEmit ==
    /\ ReadLine("record")
    /\ Truthy(ParcelOfLine[Head(lines)][state_code])
    /\ properties' = Emit(properties,
                          TextRecord(ParcelOfLine[Head(lines)][state_code],
                                     Head(lines)))
    /\ paths' = Append(paths, "text")

\* a line loop that leaves the page at the first line without a parcel
ScanLineBreaks ==
    /\ pc = "lines"
    /\ lines # <<>>
    /\ Fixed \/ n_units < MaxUnits
    /\ ~Truthy(ParcelOfLine[Head(lines)][state_code])
    /\ lines' = <<>>
    /\ n_units' = n_units + 1
    /\ last' = [kind |-> "line", row |-> <<>>, line |-> Head(lines),
                outcome |-> "rejected", parser |-> "text"]
    /\ scanned' = Append(scanned, Head(lines))
    /\ visited' = IF Fixed
                  THEN Append(visited, <<page_num, 0,
                                         Len(LinesOf[page_text]) - Len(lines) + 1>>)
                  ELSE visited
    /\ UNCHANGED <<args, call_vars, doc_vars, table_pages, detection,
                   table_idx, pc, page_num, page_text, row_idx, pdf_format,
                   current_municipality, last_marker, tables_seen,
                   properties, paths>>

\* the line has no parcel number: nothing is appended
ScanLineSkip ==
    /\ ReadLine("rejected")
    /\ ~Truthy(ParcelOfLine[Head(lines)][state_code])
    /\ UNCHANGED <<properties, paths>>

Next ==
    \/ OpenTablePage
    \/ OpenTextPage
    \/ NextTable
    \/ ClosePage
    \/ Return
    \/ SkipShortRow
    \/ DiscardColumnHeader
    \/ MunicipalityRow
    \/ SkipHeaderRow
    \/ ParseRowEmit
    \/ ParseRowReject
    \/ ParseRowError
    \/ ScanLineEmit
    \/ ScanLineSkip

Spec == Init /\ [][Next]_vars

(* ---------------------------------------------------------------------- *)
(* parse_pdf over a document fixed ahead                                   *)
(* ---------------------------------------------------------------------- *)

\* a page as pdfplumber hands it over: extract_tables() and extract_text()
Page(tables, text) == [tables |-> tables, text |-> text]

\* a repository list: a table with its column header, then a page of text
DocRepository ==
    <<Page(<<<<RowRepositoryHeader, RowMunicipality, RowRepositoryData>>>>,
           TextEmpty),
      Page(<<>>, TextOwnerLine)>>

\* an upset list whose only page has two tables
DocUpset ==
    <<Page(<<<<RowShortMunicipality, RowLoose>>,
             <<RowUpsetData, RowUpsetCredit>>>>,
           TextUpset)>>

\* a cover page without tables, then a judicial table
DocCoverPage ==
    <<Page(<<>>, TextUpset),
      Page(<<<<RowJudicialHeader, RowJudicialData, RowSection>>>>,
           TextEmpty)>>

\* a scanned page: neither tables nor text
DocScanned ==
    <<Page(<<>>, TextEmpty)>>

\* a file without pages
DocNoPages ==
    <<>>

Documents == {DocRepository, DocUpset, DocCoverPage, DocScanned, DocNoPages}

\* parse_pdf is entered for one of the documents
InitFixed ==
    /\ state_code \in StateCodes
    /\ sale_type \in SaleTypes
    /\ sale_date \in SaleDates
    /\ tax_year \in Years
    /\ document \in {[fixed |-> TRUE, pages |-> pages] : pages \in Documents}
    /\ Entered
    /\ pending = "none"
    /\ called = "none"
    /\ raw_value = NoneStr
    /\ returned = NoneStr
    /\ docs = <<>>
    /\ disk = <<>>

SpecFixed == InitFixed /\ [][Next]_vars

\* parse_pdf runs in one thread: a statement that can run does run
FairFixed == SpecFixed /\ WF_vars(Next)

\* the sequences of a sequence of sequences, one after the other
RECURSIVE Chain(_)
Chain(seqs) ==
    IF seqs = <<>> THEN <<>> ELSE Head(seqs) \o Chain(Tail(seqs))

\* the positions of the rows of table t of page p
TablePositions(p, t) ==
    [i \in 1..Len(document.pages[p].tables[t]) |-> <<p, t, i>>]

\* the positions of the units of page p: its rows, or else its text lines
PagePositions(p) ==
    IF document.pages[p].tables # <<>>
    THEN Chain([t \in 1..Len(document.pages[p].tables) |->
                   TablePositions(p, t)])
    ELSE [i \in 1..Len(LinesOf[document.pages[p].text]) |-> <<p, 0, i>>]

\* the positions of the units of the document, in document order
Positions == Chain([p \in 1..Len(document.pages) |-> PagePositions(p)])

(* ---------------------------------------------------------------------- *)
(* parse_parcel_id called on its own                                       *)
(* ---------------------------------------------------------------------- *)

\* what may stand before a parcel number in a cell or on a line
ValuePrefixes ==
    {<<>>,
     <<"T", "y", "r", "o", "n", "e", " ", "B", "o", "r", "o", "u", "g", "h", " ">>,
     <<"L", "O", "G", "A", "N", " ", "T", "O", "W", "N", "S", "H", "I", "P", " ">>,
     <<"C", "a", "m", "a", "#", " ">>,
     <<"c", "o", "n", "t", "r", "o", "l", " ", "n", "o", " ">>,
     <<"O", "w", "n", "e", "r", " ">>,
     <<"L", "o", "t", " ">>}

\* parcel numbers as the lists print them, and cells that hold none
ValueParcels ==
    {<<"1", "2", "-", "3", "4", "5", "-", "6", "7", "8">>,
     <<"0", "1", ".", "0", "5", "-", "1", "6", ".", ".", "-", "0", "9", "3", ".", "0", "0", "-", "0", "0", "0">>,
     <<"1", "2", "3", "4", "5", "6", "7", "8">>,
     <<"N", "/", "A">>,
     <<>>}

RawValues == {NoneStr} \cup {p \o n : p \in ValuePrefixes, n \in ValueParcels}

\* state codes with patterns of their own, and one without
CallStateCodes == {"PA", "FL", "TX", "OH"}

\* header cells that hold the words detection looks for, and cells without
HeaderCells ==
    {NoneStr,
     <<"C", "a", "m", "a", "#">>,
     <<"R", "e", "p", "u", "t", "e", "d", " ", "O", "w", "n", "e", "r">>,
     <<"W", "i", "n", "n", "i", "n", "g", " ", "B", "i", "d">>,
     <<"W", "i", "n", "n", "i", "n", "g", " ", "B", "i", "d", "d", "e", "r">>,
     <<"U", "p", "s", "e", "t", " ", "P", "r", "i", "c", "e">>,
     <<"A", "p", "p", "r", "o", "x", "i", "m", "a", "t", "e", " ", "U", "p", "s", "e", "t">>,
     <<"R", "e", "p", "o", "s", "i", "t", "o", "r", "y">>,
     <<"J", "u", "d", "i", "c", "i", "a", "l", " ", "S", "a", "l", "e">>,
     <<"C", "o", "n", "t", "r", "o", "l", " ", "N", "o">>,
     <<"O", "w", "n", "e", "r">>}

\* the header of the repository list
HeaderOfRepository ==
    <<<<"C", "A", "M", "A", "#">>,
      <<"R", "E", "P", "U", "T", "E", "D", " ", "O", "W", "N", "E", "R">>,
      <<"A", "D", "D", "R", "E", "S", "S">>,
      <<"M", "A", "P", " ", "N", "U", "M", "B", "E", "R">>,
      <<"L", "A", "N", "D", " ", "U", "S", "E">>>>

HeaderRows ==
    {<<>>, HeaderOfRepository}
    \cup {<<a, b>> : a \in HeaderCells, b \in HeaderCells}

\* n characters of page text that hold no word of detection
Filler(n) == [i \in 1..n |-> "x"]

\* page texts: short ones, and ones that hold UPSET across and just before
\* the end of what detection reads
DetectTexts ==
    {<<>>,
     <<"U", "p", "s", "e", "t", " ", "S", "a", "l", "e">>,
     <<"j", "u", "d", "i", "c", "i", "a", "l", " ", "s", "a", "l", "e", " ", "l", "i", "s", "t">>,
     <<"R", "e", "p", "o", "s", "i", "t", "o", "r", "y", " ", "w", "i", "n", "n", "i", "n", "g", " ", "b", "i", "d">>,
     Filler(DetectTextLen - Len(W_UPSET)) \o W_UPSET,
     Filler(DetectTextLen - Len(W_UPSET) + 1) \o W_UPSET}

DetectInputs ==
    {[first_row |-> r, page_text |-> t] : r \in HeaderRows, t \in DetectTexts}

\* first cells of repository rows: CAMA numbers of 6 to 9 digits and others
CamaCells ==
    {<<"1", "2", "3", "4", "5", "6", "7", "8">>,
     <<"1", "2", "3", "4", "5", "6", "7">>,
     <<"1", "2", "3", "4", "5", "6">>,
     <<"1", "2", "3", "4", "5", "6", "7", "8", "9">>,
     <<"1", "2", "3", "4", "5", "6", "7", "A">>,
     <<" ", "1", "2", "3", "4", "5", "6", "7", "8", " ">>,
     <<"0", "0", "1", "-", "1", "2", "3", "4", "5", "6">>,
     NoneStr}

\* owner cells
OwnerCells ==
    {<<"S", "M", "I", "T", "H", " ", "J", "O", "H", "N">>,
     <<"B", " ", "A", " ", "R", " ", "N", " ", "E", "R", " ", "D", "A", "V", "I", "D", " ", "W">>,
     NoneStr}

\* address cells
AddressCells ==
    {<<"1", "2", "3", " ", "M", "A", "I", "N", " ", "S", "T">>,
     <<"8", " ", "1", " ", "5", " ", "3", "R", "D", " ", "A", "V", "E">>,
     NoneStr}

\* map number cells
MapCells ==
    {<<"0", "1", ".", "0", "5", "-", "1", "6", ".", ".", "-", "0", "9", "3", ".", "0", "0", "-", "0", "0", "0">>,
     <<"1", "2", "-", "3", "4", "5", "-", "6", "7", "8">>,
     <<"L", "o", "g", "a", "n", " ", "T", "o", "w", "n", "s", "h", "i", "p", " ", "1", "2", "-", "3", "4", "5", "-", "6", "7", "8">>,
     <<"N", "/", "A">>,
     NoneStr}

\* control number cells
ControlCells ==
    {<<"0", "0", "1", "-", "1", "2", "3", "4", "5", "6">>,
     <<"0", "1", "-", "1", "2", "3", "4", "5", "6">>,
     <<"0", "0", "1", "-", "1", "2", "3", "4", "5", "6", "7">>,
     <<"0", "0", "1", "1", "2", "3", "4", "5", "6">>,
     NoneStr}

\* winning bid cells
BidCells ==
    {<<"N", "o", "t", " ", "S", "o", "l", "d">>,
     <<"$", "1", ",", "5", "0", "0", ".", "0", "0">>,
     NoneStr}

\* cells of a list of no known format
LooseCells ==
    {<<"1", "2", "-", "3", "4", "5", "-", "6", "7", "8">>,
     <<"9", "8", "-", "7", "6", "5", "-", "4", "3", "2">>,
     <<"A", "C", "M", "E", " ", "L", "L", "C">>,
     <<"$", "0", ".", "0", "0">>,
     <<"$", "7", "5", ".", "0", "0">>,
     <<"$", "a", "b", "c">>,
     <<"1", "2", " ", "O", "A", "K", " ", "S", "T">>,
     <<"4", "4", " ", "E", "L", "M", " ", "R", "D">>,
     NoneStr}

\* the first n cells of a row
Cut(row, n) == SubSeq(row, 1, IF Len(row) < n THEN Len(row) ELSE n)

\* rows of 3, 4 and 5 cells in the columns of the repository list
RepositoryRows ==
    {Cut(<<c, o, a, m, <<"R", "e", "s", "i", "d", "e", "n", "t", "i", "a", "l">>>>, n) :
        c \in CamaCells, o \in {<<"S", "M", "I", "T", "H", " ", "J", "O", "H", "N">>, NoneStr},
        a \in {<<"1", "2", "3", " ", "M", "A", "I", "N", " ", "S", "T">>, NoneStr}, m \in MapCells,
        n \in {3, 4, 5}}

\* rows of 4, 5, 7 and 8 cells in the columns of the judicial list
JudicialRows ==
    {Cut(<<<<"*">>, c, o, m, a, <<"R">>, b, NoneStr>>, n) :
        c \in ControlCells, o \in OwnerCells,
        m \in {<<"0", "1", ".", "0", "5", "-", "1", "6", ".", ".", "-", "0", "9", "3", ".", "0", "0", "-", "0", "0", "0">>, <<"N", "/", "A">>, NoneStr},
        a \in {<<"8", " ", "1", " ", "5", " ", "3", "R", "D", " ", "A", "V", "E">>, NoneStr}, b \in BidCells,
        n \in {4, 5, 7, 8}}

\* rows of 3 cells of a list of no known format
LooseRows == {<<a, b, c>> : a \in LooseCells, b \in LooseCells, c \in LooseCells}

\* the words of names as the lists print them: single letters, a suffix, a
\* surname, first names of COMMON_FIRST_NAMES, words with an apostrophe and a
\* hyphen
NameTokens ==
    {<<"A">>,
     <<"J">>,
     <<"E", "R">>,
     <<"D", "A", "V", "I", "D">>,
     <<"J", "O", "H", "N">>,
     <<"S", "M", "I", "T", "H">>,
     <<"O", "'", "B">>,
     <<"K", "-">>}

\* the number of words of a name
MaxTokens == 3

\* the docstring's example of clean_spaced_text
NameOfDocstring == <<"B", " ", "A", " ", "R", " ", "N", " ", "E", "R", " ", "D", "A", "V", "I", "D", " ", "W">>

SpacedTexts ==
    {NameOfDocstring}
    \cup {JoinWith(ws, <<" ">>) :
            ws \in UNION {[1..n -> NameTokens] : n \in 1..MaxTokens}}

InitCall ==
    /\ sale_type = "unknown"
    /\ sale_date \in SaleDates
    /\ tax_year \in Years
    /\ document = FreeDocument
    /\ Entered
    /\ called = "none"
    /\ returned = NoneStr
    /\ \/ /\ pending = "parse_parcel_id"
          /\ state_code \in CallStateCodes
          /\ raw_value \in RawValues
       \/ /\ pending = "detect_pdf_format"
          /\ state_code \in StateCodes
          /\ raw_value \in DetectInputs
       \/ /\ pending = "parse_repository_row"
          /\ state_code \in StateCodes
          /\ raw_value \in RepositoryRows
       \/ /\ pending = "parse_judicial_row"
          /\ state_code \in StateCodes
          /\ raw_value \in JudicialRows
       \/ /\ pending = "parse_generic_row"
          /\ state_code \in StateCodes
          /\ raw_value \in LooseRows
       \/ /\ pending = "clean_spaced_text"
          /\ state_code \in StateCodes
          /\ raw_value \in SpacedTexts
    /\ docs = <<>>
    /\ disk = <<>>

\* parse_parcel_id(value, state_code)
CallParseParcelId ==
    /\ pending = "parse_parcel_id"
    /\ called = "none"
    /\ called' = "parse_parcel_id"
    /\ returned' = parse_parcel_id(raw_value, state_code)
    /\ UNCHANGED <<args, parse_vars, doc_vars, pending, raw_value>>

\* detect_pdf_format(first_row, page_text)
CallDetectPdfFormat ==
    /\ pending = "detect_pdf_format"
    /\ called = "none"
    /\ called' = "detect_pdf_format"
    /\ returned' = detect_pdf_format(raw_value.first_row, raw_value.page_text)
    /\ UNCHANGED <<args, parse_vars, doc_vars, pending, raw_value>>

\* parse_repository_row(row, state_code, municipality)
CallParseRepositoryRow ==
    /\ pending = "parse_repository_row"
    /\ called = "none"
    /\ called' = "parse_repository_row"
    /\ returned' = parse_repository_row(raw_value, state_code,
                                        current_municipality)
    /\ UNCHANGED <<args, parse_vars, doc_vars, pending, raw_value>>

\* parse_judicial_row(row, state_code)
CallParseJudicialRow ==
    /\ pending = "parse_judicial_row"
    /\ called = "none"
    /\ called' = "parse_judicial_row"
    /\ returned' = parse_judicial_row(raw_value, state_code)
    /\ UNCHANGED <<args, parse_vars, doc_vars, pending, raw_value>>

\* parse_generic_row(row, state_code, municipality)
CallParseGenericRow ==
    /\ pending = "parse_generic_row"
    /\ called = "none"
    /\ called' = "parse_generic_row"
    /\ returned' = parse_generic_row(raw_value, state_code,
                                     current_municipality)
    /\ UNCHANGED <<args, parse_vars, doc_vars, pending, raw_value>>

\* clean_spaced_text(text)
CallCleanSpacedText ==
    /\ pending = "clean_spaced_text"
    /\ called = "none"
    /\ called' = "clean_spaced_text"
    /\ returned' = clean_spaced_text(raw_value)
    /\ UNCHANGED <<args, parse_vars, doc_vars, pending, raw_value>>

NextCall ==
    \/ CallParseParcelId
    \/ CallDetectPdfFormat
    \/ CallParseRepositoryRow
    \/ CallParseJudicialRow
    \/ CallParseGenericRow
    \/ CallCleanSpacedText

SpecCall == InitCall /\ [][NextCall]_vars

(* ---------------------------------------------------------------------- *)
(* parse_document: one call per document, calls of separate runs of the    *)
(* parser interleaved                                                      *)
(* ---------------------------------------------------------------------- *)

\* s.replace(old, new) for single characters
RECURSIVE ReplaceChar(_, _, _)
ReplaceChar(s, old, new) ==
    IF s = <<>> THEN <<>>
    ELSE <<IF Head(s) = old THEN new ELSE Head(s)>>
         \o ReplaceChar(Tail(s), old, new)

\* f"temp_{title.replace(' ', '_')}.pdf"
Filename(title) ==
    <<"t", "e", "m", "p", "_">> \o ReplaceChar(title, " ", "_")
    \o <<".", "p", "d", "f">>

\* the sale type parse_document reads from the title of the document
SaleTypeOf(title) ==
    LET title_upper == Upper(title)
    IN  IF Contains(title_upper, W_REPOSITORY) THEN "repository"
        ELSE IF Contains(title_upper, W_JUDICIAL) THEN "judicial"
        ELSE IF Contains(title_upper, W_UPSET) THEN "upset"
        ELSE "unknown"

\* sum(confidences) / len(confidences) if confidences else 0, as the
\* fraction <<numerator, denominator>> of hundredths
RECURSIVE Sum(_)
Sum(ns) == IF ns = <<>> THEN 0 ELSE Head(ns) + Sum(Tail(ns))

\* the average without its guard: <<>> stands for ZeroDivisionError
AverageUnguarded(confidences) ==
    IF confidences = <<>> THEN <<>>
    ELSE <<Sum(confidences), Len(confidences)>>

Average(confidences) ==
    IF confidences # <<>> THEN <<Sum(confidences), Len(confidences)>>
    ELSE <<0, 1>>

TitleUpsetSaleList == <<"U", "p", "s", "e", "t", " ", "S", "a", "l", "e", " ", "L", "i", "s", "t">>

TitleRepositoryList == <<"R", "e", "p", "o", "s", "i", "t", "o", "r", "y", " ", "L", "i", "s", "t">>

TitleTaxSale == <<"T", "a", "x", " ", "S", "a", "l", "e", " ", "2", "0", "2", "5">>

\* the documents get_unparsed_documents hands out: a PDF is described by
\* whether pdfplumber opens it and by the confidences of the records
\* parse_pdf returns for it; two counties publish a list under one title
Docs ==
    {[document_id |-> "blair-upset", document_title |-> TitleUpsetSaleList,
      opens |-> TRUE, records |-> <<CONF_FORMAT, CONF_FORMAT>>],
     [document_id |-> "centre-upset", document_title |-> TitleUpsetSaleList,
      opens |-> TRUE, records |-> <<>>],
     [document_id |-> "blair-repository",
      document_title |-> TitleRepositoryList,
      opens |-> TRUE, records |-> <<CONF_GENERIC>>],
     [document_id |-> "blair-tax", document_title |-> TitleTaxSale,
      opens |-> FALSE, records |-> <<>>]}

Filenames == {Filename(doc.document_title) : doc \in Docs}

\* the runs of the parser that are under way at the same time
Instances == {1, 2}

\* the locals of a parse_document call and the calls it has made on its job
Called(doc) ==
    [document |-> doc,
     pc |-> "create_job",
     filename |-> Filename(doc.document_title),
     sale_type |-> "none",
     properties |-> <<>>,
     parsed |-> FALSE,
     i |-> 0,
     stored |-> 0,
     failed |-> 0,
     confidences |-> <<>>,
     job |-> <<>>,
     ret |-> <<>>]

InitDocs ==
    /\ state_code \in StateCodes
    /\ sale_type = "unknown"
    /\ sale_date \in SaleDates
    /\ tax_year \in Years
    /\ document = FreeDocument
    /\ Entered
    /\ pending = "none"
    /\ called = "none"
    /\ raw_value = NoneStr
    /\ returned = NoneStr
    /\ docs \in [Instances -> {Called(doc) : doc \in Docs}]
    /\ disk = [f \in Filenames |-> <<>>]

\* job_id = create_parsing_job(doc_id)
CreateJob(d) ==
    /\ docs[d].pc = "create_job"
    /\ docs' = [docs EXCEPT ![d].pc = "download",
                            ![d].job = <<[call |-> "create_parsing_job"]>>]
    /\ UNCHANGED <<args, parse_vars, call_vars, disk>>

\* download_pdf(url, filename) writes the file; the sale type is read from
\* the title
Download(d) ==
    /\ docs[d].pc = "download"
    /\ disk' = [disk EXCEPT ![docs[d].filename] = <<docs[d].document>>]
    /\ docs' = [docs EXCEPT ![d].pc = "parse_pdf",
                            ![d].sale_type =
                                SaleTypeOf(docs[d].document.document_title)]
    /\ UNCHANGED <<args, parse_vars, call_vars>>

\* requests.get or raise_for_status raises
DownloadFails(d) ==
    /\ docs[d].pc = "download"
    /\ docs' = [docs EXCEPT ![d].pc = "except"]
    /\ UNCHANGED <<args, parse_vars, call_vars, disk>>

\* parse_pdf swallowing the failure to open the file and returning no record
ParsePdfSwallows(d) ==
    /\ docs[d].pc = "parse_pdf"
    /\ LET file == disk[docs[d].filename]
       IN  docs' = [docs EXCEPT
                      ![d].pc = "store",
                      ![d].properties =
                          IF file = <<>> \/ ~file[1].opens THEN <<>>
                          ELSE file[1].records,
                      ![d].parsed = TRUE]
    /\ UNCHANGED <<args, parse_vars, call_vars, disk>>

\* properties = parse_pdf(filename, state_code, sale_type, None): the file
\* of that name is read; pdfplumber.open raises if it is missing or broken
ParsePdf(d) ==
    /\ docs[d].pc = "parse_pdf"
    /\ LET file == disk[docs[d].filename]
       IN  IF file = <<>> \/ ~file[1].opens
           THEN docs' = [docs EXCEPT ![d].pc = "except"]
           ELSE docs' = [docs EXCEPT ![d].pc = "store",
                                     ![d].properties = file[1].records,
                                     ![d].parsed = TRUE]
    /\ UNCHANGED <<args, parse_vars, call_vars, disk>>

\* upsert_property(county_id, doc_id, prop) returns
Upsert(d) ==
    /\ docs[d].pc = "store"
    /\ docs[d].i < Len(docs[d].properties)
    /\ docs' = [docs EXCEPT
                  ![d].i = @ + 1,
                  ![d].stored = @ + 1,
                  ![d].confidences =
                      Append(@, docs[d].properties[docs[d].i + 1])]
    /\ UNCHANGED <<args, parse_vars, call_vars, disk>>

\* upsert_property raises: except Exception: failed += 1
UpsertFails(d) ==
    /\ docs[d].pc = "store"
    /\ docs[d].i < Len(docs[d].properties)
    /\ docs' = [docs EXCEPT ![d].i = @ + 1, ![d].failed = @ + 1]
    /\ UNCHANGED <<args, parse_vars, call_vars, disk>>

\* avg_confidence = ...; complete_job(job_id, stored, failed, avg_confidence)
CompleteJob(d) ==
    /\ docs[d].pc = "store"
    /\ docs[d].i = Len(docs[d].properties)
    /\ LET avg_confidence == Average(docs[d].confidences)
       IN  IF avg_confidence = <<>>
           THEN docs' = [docs EXCEPT ![d].pc = "except"]
           ELSE docs' = [docs EXCEPT
                           ![d].pc = "exists",
                           ![d].job = Append(@,
                               [call |-> "complete_job",
                                extracted |-> docs[d].stored,
                                failed |-> docs[d].failed,
                                confidence |-> avg_confidence])]
    /\ UNCHANGED <<args, parse_vars, call_vars, disk>>

\* if os.path.exists(filename): ... else return stored, failed
CheckExists(d) ==
    /\ docs[d].pc = "exists"
    /\ IF disk[docs[d].filename] # <<>>
       THEN docs' = [docs EXCEPT ![d].pc = "remove"]
       ELSE docs' = [docs EXCEPT ![d].pc = "returned",
                                 ![d].ret = <<docs[d].stored, docs[d].failed>>]
    /\ UNCHANGED <<args, parse_vars, call_vars, disk>>

\* os.remove(filename); return stored, failed. os.remove raises if the file
\* has gone since os.path.exists
Remove(d) ==
    /\ docs[d].pc = "remove"
    /\ IF disk[docs[d].filename] # <<>>
       THEN /\ disk' = [disk EXCEPT ![docs[d].filename] = <<>>]
            /\ docs' = [docs EXCEPT
                          ![d].pc = "returned",
                          ![d].ret = <<docs[d].stored, docs[d].failed>>]
       ELSE /\ docs' = [docs EXCEPT ![d].pc = "except"]
            /\ UNCHANGED disk
    /\ UNCHANGED <<args, parse_vars, call_vars>>

\* except Exception as e: fail_job(job_id, str(e)); return 0, 1
FailJob(d) ==
    /\ docs[d].pc = "except"
    /\ docs' = [docs EXCEPT ![d].pc = "returned",
                            ![d].job = Append(@, [call |-> "fail_job"]),
                            ![d].ret = <<0, 1>>]
    /\ UNCHANGED <<args, parse_vars, call_vars, disk>>

\* complete_job raises: the RPC fails
CompleteJobFails(d) ==
    /\ docs[d].pc = "store"
    /\ docs[d].i = Len(docs[d].properties)
    /\ docs' = [docs EXCEPT ![d].pc = "except"]
    /\ UNCHANGED <<args, parse_vars, call_vars, disk>>

\* os.remove raises although the file is there (it is open elsewhere, or
\* may not be removed)
RemoveFails(d) ==
    /\ docs[d].pc = "remove"
    /\ disk[docs[d].filename] # <<>>
    /\ docs' = [docs EXCEPT ![d].pc = "except"]
    /\ UNCHANGED <<args, parse_vars, call_vars, disk>>

\* fail_job raises in the except clause: the exception leaves parse_document
FailJobFails(d) ==
    /\ docs[d].pc = "except"
    /\ docs' = [docs EXCEPT ![d].pc = "raised"]
    /\ UNCHANGED <<args, parse_vars, call_vars, disk>>

\* separate runs of the parser, their steps interleaved, with a database
\* and a file system that may fail
NextDocs ==
    \E d \in Instances :
        \/ CreateJob(d)
        \/ Download(d)
        \/ DownloadFails(d)
        \/ ParsePdf(d)
        \/ Upsert(d)
        \/ UpsertFails(d)
        \/ CompleteJob(d)
        \/ CheckExists(d)
        \/ Remove(d)
        \/ FailJob(d)
        \/ CompleteJobFails(d)
        \/ RemoveFails(d)
        \/ FailJobFails(d)

SpecDocs == InitDocs /\ [][NextDocs]_vars

\* parse_county: for doc in documents: parse_document(...), one document
\* after the other, with job RPCs and a file system that answer
InTurn(d) == \A e \in Instances : e < d => docs[e].pc = "returned"

NextCounty ==
    \E d \in Instances :
        \/ InTurn(d) /\ CreateJob(d)
        \/ InTurn(d) /\ Download(d)
        \/ InTurn(d) /\ DownloadFails(d)
        \/ InTurn(d) /\ ParsePdf(d)
        \/ InTurn(d) /\ Upsert(d)
        \/ InTurn(d) /\ UpsertFails(d)
        \/ InTurn(d) /\ CompleteJob(d)
        \/ InTurn(d) /\ CheckExists(d)
        \/ InTurn(d) /\ Remove(d)
        \/ InTurn(d) /\ FailJob(d)

SpecCounty == InitDocs /\ [][NextCounty]_vars

(* ---------------------------------------------------------------------- *)
(* Properties                                                              *)
(* ---------------------------------------------------------------------- *)

\* the record appended last
LastRecord == properties[Len(properties)]

\* the unit read last was a table row and a record was appended for it
RowRecorded == last.kind = "row" /\ last.outcome = "record"

\* the city the marker row seen last stands for
MarkerCity ==
    IF last_marker = NoneStr THEN NoneStr ELSE Upper(Strip(last_marker))

\* C1: a record the repository, upset or generic parser makes from a table
\* row has as city the first cell of the municipality marker row seen last,
\* stripped and in capitals, wherever in the document that marker was, and
\* no city if no marker was seen; a record of the judicial parser has no city.
C1_CityFromLastMarker ==
    RowRecorded =>
        IF last.parser = "judicial" THEN LastRecord.city = NoneStr
        ELSE LastRecord.city = MarkerCity

\* a record on the second page takes its city from a marker of the first
C1_MarkerCarriedToNextPage ==
    /\ RowRecorded
    /\ last.parser # "judicial"
    /\ last_marker # NoneStr
    /\ LastRecord.city # NoneStr
    /\ page_num = 2

\* C1 as stated: the city is the first cell of the marker row as printed
C1_CityIsFirstCellAsPrinted ==
    RowRecorded =>
        IF last.parser = "judicial" THEN LastRecord.city = NoneStr
        ELSE LastRecord.city = last_marker

\* the formats that have a row parser of their own
OwnParserFormats == {"repository", "judicial", "upset"}

\* the parser of the frozen format returns None for the row read in this
\* step, a data row that the generic parser would make a record of
OwnParserRejects ==
    /\ n_units' = n_units + 1
    /\ last'.kind = "row"
    /\ last'.outcome \in {"record", "rejected"}
    /\ pdf_format' \in OwnParserFormats
    /\ Parsed[last'.row][pdf_format'][state_code][current_municipality] = <<>>
    /\ Parsed[last'.row]["generic"][state_code][current_municipality] # <<>>

RejectedKeywords ==
    <<<<"T", "O", "W", "N", "S", "H", "I", "P">>,
      <<"B", "O", "R", "O", "U", "G", "H">>,
      <<"C", "I", "T", "Y", " ", "O", "F">>,
      <<"C", "A", "M", "A">>,
      <<"M", "A", "P", " ", "N", "U", "M", "B", "E", "R">>,
      <<"C", "O", "N", "T", "R", "O", "L">>,
      <<"O", "W", "N", "E", "R">>,
      <<"D", "E", "S", "C", "R", "I", "P", "T", "I", "O", "N">>,
      <<"L", "A", "N", "D", " ", "U", "S", "E">>>>

\* a scanned line holds text that matches a parcel pattern of the state
PatternLineScanned ==
    \E i \in 1..Len(scanned) : HasParcelPattern(scanned[i], state_code)

\* a scanned line holds such text and none of the rejected keywords
CleanPatternLineScanned ==
    \E i \in 1..Len(scanned) :
        /\ HasParcelPattern(scanned[i], state_code)
        /\ ~ContainsAny(Upper(scanned[i]), RejectedKeywords)

\* some record of the list comes from the bare-text scan, rated 0.5 to 0.6
TextRecordReturned ==
    \E i \in 1..Len(properties) :
        /\ paths[i] = "text"
        /\ properties[i].confidence >= 50
        /\ properties[i].confidence <= 60

\* C3: a document none of whose pages has a table, and one of whose text
\* lines holds a match of a parcel pattern of the state and none of the
\* rejected keywords, returns at least one record of the bare-text scan,
\* with a confidence in [0.5, 0.6].
C3_CleanPatternLineYieldsRecord ==
    (pc = "done" /\ ~tables_seen /\ CleanPatternLineScanned)
        => TextRecordReturned

\* a document of two text pages was returned with a record of the scan
C3_TextDocumentReturned ==
    /\ pc = "done"
    /\ ~tables_seen
    /\ CleanPatternLineScanned
    /\ page_num = 2
    /\ properties # <<>>

\* C3 as stated: any line that holds a match of a parcel pattern is enough
C3_PatternLineYieldsRecord ==
    (pc = "done" /\ ~tables_seen /\ PatternLineScanned) => TextRecordReturned

\* C4: an exception in the try block of a row leaves parse_pdf in the loop
\* over the rows, at the next row, with the format as the detection block
\* left it, and with the municipality and the output list unchanged.
C4_RowExceptionSkipsTheRow ==
    [][(n_units' = n_units + 1 /\ last'.outcome = "exception") =>
          /\ pc' = "rows"
          /\ row_idx' = row_idx + 1
          /\ pdf_format' = pdf_format
                \/ (Detecting /\ pdf_format' = FormatAfter(last'.row))
          /\ current_municipality' = current_municipality
          /\ properties' = properties]_vars

\* a row raised after a marker and a record, and both are still there
C4_ExceptionAfterRecord ==
    /\ last.outcome = "exception"
    /\ pc = "rows"
    /\ properties # <<>>
    /\ current_municipality # NoneStr

\* the parcel IDs the row parsers and the line scan return for the documents
ParcelIdsReturned ==
    {Parsed[row][parser][code][municipality][1].parcel_id :
        <<row, parser, code, municipality>> \in
            {q \in Rows \X Parsers \X StateCodes \X Municipalities :
                Parsed[q[1]][q[2]][q[3]][q[4]] # <<>>}}
    \cup {ParcelOfLine[line][code] : line \in Lines, code \in StateCodes}

\* does the parcel ID hold one of the rejected keywords, in any case of letters
HoldsKeyword ==
    Table(LAMBDA id : ContainsAny(Upper(id), RejectedKeywords),
          ParcelIdsReturned)

\* C5: every record of the output list, whichever parser or scan made it,
\* has a parcel_id that is not empty and holds none of the rejected keywords.
C5_ParcelIdNeverKeyword ==
    \A i \in 1..Len(properties) :
        /\ Truthy(properties[i].parcel_id)
        /\ ~HoldsKeyword[properties[i].parcel_id]

\* the list holds a record of the bare-text scan and one of a row parser
C5_RecordsOfScanAndParser ==
    \E i, j \in 1..Len(properties) : paths[i] = "text" /\ paths[j] # "text"

\* the four keywords of which parse_parcel_id is said to reject every value
KeywordsOfC6 ==
    <<<<"T", "O", "W", "N", "S", "H", "I", "P">>,
      <<"B", "O", "R", "O", "U", "G", "H">>,
      <<"C", "A", "M", "A">>,
      <<"C", "O", "N", "T", "R", "O", "L">>>>

\* C6: parse_parcel_id returns None for a value that holds, in any case of
\* letters, TOWNSHIP, BOROUGH, CAMA or CONTROL, whatever the state code and
\* whatever else the value holds.
C6_KeywordValueRejected ==
    (called = "parse_parcel_id" /\ ContainsAny(Upper(raw_value), KeywordsOfC6))
        => returned = NoneStr

\* a value with a keyword and a parcel number was passed and rejected
C6_KeywordBesideParcelNumber ==
    /\ called = "parse_parcel_id"
    /\ ContainsAny(Upper(raw_value), KeywordsOfC6)
    /\ HasParcelPattern(raw_value, state_code)
    /\ returned = NoneStr

\* C7: the confidence of a record is fixed by the path that made it: 0.95
\* for the repository, judicial and upset parsers, 0.70 for the generic
\* parser, between 0.50 and 0.60 for the bare-text scan; all lie in [0, 1].
C7_ConfidenceFixedByPath ==
    \A i \in 1..Len(properties) :
        LET c == properties[i].confidence
        IN  /\ c >= 0 /\ c <= 100
            /\ paths[i] \in OwnParserFormats => c = 95
            /\ paths[i] = "generic" => c = 70
            /\ paths[i] = "text" => c >= 50 /\ c <= 60

\* the list holds a record of the generic parser and one of the scan
C7_RecordsOfTwoPaths ==
    \E i, j \in 1..Len(properties) : paths[i] = "generic" /\ paths[j] = "text"

\* C8: the total_due of every record is absent or not negative.
C8_TotalDueNeverNegative ==
    \A i \in 1..Len(properties) :
        \/ properties[i].total_due = <<>>
        \/ properties[i].total_due[1] >= 0

\* the text of the unit a record was made of
UnitText(unit) == IF unit.kind = "row" THEN RawTextOf[unit.row] ELSE unit.line

\* C9: a step changes the output list only by appending one record, that of
\* the row or line read in the step; the records already in the list keep
\* their fields and their places.
C9_OutputOnlyAppended ==
    [][properties' # properties =>
          /\ Len(properties') = Len(properties) + 1
          /\ SubSeq(properties', 1, Len(properties)) = properties
          /\ n_units' = n_units + 1
          /\ properties'[Len(properties')].raw_text = UnitText(last')]_vars

\* records of two pages are in the list
C9_RecordsOfTwoPages == Len(properties) >= 2 /\ page_num = 2

\* is the row a municipality marker or a header or section row
MarkerOrHeader == Table(LAMBDA row : Truthy(extract_municipality(row))
                                         \/ is_header_or_skip_row(row), Rows)

\* does some cell of the row hold a valid parcel ID
HasParcelIdIn(row) ==
    Table(LAMBDA code : \E i \in 1..Len(row) :
                            Truthy(parse_parcel_id(row[i], code)), StateCodes)

HasParcelId == Table(HasParcelIdIn, Rows)

\* (a) and (b) of C10 for the unit read
ValidUnit(unit) ==
    IF unit.kind = "row"
    THEN ~MarkerOrHeader[unit.row] /\ HasParcelId[unit.row][state_code]
    ELSE Truthy(parse_parcel_id(unit.line, state_code))

\* C10: a step adds a record only when it reads a unit that is neither a
\* municipality marker nor a header or section row and that holds a valid
\* parcel ID, in a cell of the row or in the text line; it adds one record.
C10_RecordOnlyForValidUnit ==
    [][properties' # properties =>
          /\ n_units' = n_units + 1
          /\ Len(properties') = Len(properties) + 1
          /\ ValidUnit(last')]_vars

\* a text line was recorded in a document that also has a recorded row
C10_RowAndLineRecorded ==
    /\ last.kind = "line"
    /\ last.outcome = "record"
    /\ tables_seen
    /\ Len(properties) = 2

(* ---------------------------------------------------------------------- *)
(* parse_document                                                          *)
(* ---------------------------------------------------------------------- *)

JobCalls(d) == {docs[d].job[k].call : k \in DOMAIN docs[d].job}

\* C11: two documents processed at the same time by separate runs each
\* yield the record list they yield alone, and no run reads a downloaded
\* input file another run has written: the file a run is about to parse is
\* the one it downloaded, and the records it parsed are its own document's.
C11_RunsAreIsolated ==
    \A d \in Instances :
        /\ docs[d].pc = "parse_pdf"
              => disk[docs[d].filename] = <<docs[d].document>>
        /\ docs[d].parsed
              => docs[d].properties = docs[d].document.records

Unopenable(d) ==
    /\ ~docs[d].document.opens
    /\ docs[d].sale_type # "none"
    /\ docs[d].pc # "parse_pdf"

DetectionText ==
    HeaderText(raw_value.first_row) \o <<" ">>
    \o SubSeq(Upper(raw_value.page_text), 1,
              IF Len(raw_value.page_text) > DetectTextLen THEN DetectTextLen
              ELSE Len(raw_value.page_text))

Seen(word) == Contains(DetectionText, word)

PageTextUpsetSale == <<"U", "p", "s", "e", "t", " ", "S", "a", "l", "e">>

\* C14: detect_pdf_format returns repository, judicial, upset or unknown by
\* the first signature, in this order, that the upper-cased header row
\* joined with the first 500 characters of the page text holds: CAMA with
\* REPUTED OWNER, WINNING BID or WINNING BIDDER, UPSET or APPROXIMATE,
\* REPOSITORY, JUDICIAL; the repository header gives repository whatever
\* the page text holds.
C14_DetectionPriority ==
    called = "detect_pdf_format"
        => /\ returned \in {"repository", "judicial", "upset", "unknown"}
           /\ returned =
                 IF Seen(W_CAMA) /\ Seen(W_REPUTED_OWNER) THEN "repository"
                 ELSE IF Seen(W_WINNING_BID) \/ Seen(W_WINNING_BIDDER)
                 THEN "judicial"
                 ELSE IF Seen(W_UPSET) \/ Seen(W_APPROXIMATE) THEN "upset"
                 ELSE IF Seen(W_REPOSITORY) THEN "repository"
                 ELSE IF Seen(W_JUDICIAL) THEN "judicial"
                 ELSE "unknown"
           /\ raw_value.first_row = HeaderOfRepository
                 => returned = "repository"

\* the repository header was detected on a page whose text says Upset
C14_RepositoryHeaderOnUpsetPage ==
    /\ called = "detect_pdf_format"
    /\ raw_value.first_row = HeaderOfRepository
    /\ raw_value.page_text = PageTextUpsetSale
    /\ returned = "repository"

W_CONTROL_NO == <<"C", "O", "N", "T", "R", "O", "L", " ", "N", "O">>

\* C15: detect_pdf_format returns upset whenever the header row or the page
\* text holds CONTROL NO and neither CAMA with REPUTED OWNER nor WINNING BID,
\* also when neither UPSET nor APPROXIMATE occurs.
C15_ControlNoIsUpset ==
    ( /\ called = "detect_pdf_format"
      /\ Seen(W_CONTROL_NO)
      /\ ~(Seen(W_CAMA) /\ Seen(W_REPUTED_OWNER))
      /\ ~Seen(W_WINNING_BID) )
        => returned = "upset"

(* ---------------------------------------------------------------------- *)
(* The row parsers                                                         *)
(* ---------------------------------------------------------------------- *)

\* the text of cell i (counted from 0) of the row of the call, trimmed;
\* empty for a cell that is None
CellOf(i) == IF Truthy(raw_value[i + 1]) THEN Strip(raw_value[i + 1]) ELSE <<>>

\* the field a parser makes of cell i: its trimmed text, None for no text
FieldOf(i) == IF Truthy(raw_value[i + 1]) THEN Strip(raw_value[i + 1])
              ELSE NoneStr

OnlyDigits(s, from, to) == \A k \in from..to : s[k] \in Digits

SevenOrEightDigits(s) == Len(s) \in {7, 8} /\ OnlyDigits(s, 1, Len(s))

\* cell i of the row of the call yields a parcel ID
YieldsParcelId(i) == Truthy(parse_parcel_id(CellOf(i), state_code))

RepositoryRowQualifies ==
    /\ Len(raw_value) >= 4
    /\ SevenOrEightDigits(CellOf(0))
    /\ YieldsParcelId(3)

\* C16: parse_repository_row returns a record if and only if the row has at
\* least 4 cells, cell 0 is 7 or 8 digits and nothing else, and cell 3
\* yields a parcel ID; the record has the parcel ID of cell 3, the owner of
\* cell 1, the address of cell 2, no total_due and confidence 0.95; the
\* sample row gives parcel_id 01.05-16..-093.00-000.
C16_RepositoryRecordIffRowQualifies ==
    called = "parse_repository_row"
        => /\ returned # <<>> <=> RepositoryRowQualifies
           /\ returned # <<>>
                 => /\ returned[1].parcel_id
                         = parse_parcel_id(CellOf(3), state_code)
                    /\ returned[1].owner = FieldOf(1)
                    /\ returned[1].address = FieldOf(2)
                    /\ returned[1].total_due = <<>>
                    /\ returned[1].confidence = 95
           /\ raw_value = RowRepositoryData
                 => /\ returned # <<>>
                    /\ returned[1].parcel_id = RowRepositoryData[4]

\* the sample row was parsed to a record
C16_SampleRowParsed ==
    /\ called = "parse_repository_row"
    /\ raw_value = RowRepositoryData
    /\ returned # <<>>
    /\ returned[1].parcel_id = RowRepositoryData[4]

\* 3 digits, a dash and 6 digits
IsControlNumber(s) ==
    /\ Len(s) = 10
    /\ OnlyDigits(s, 1, 3)
    /\ s[4] = "-"
    /\ OnlyDigits(s, 5, 10)

NotSoldRow ==
    /\ Len(raw_value) >= 7
    /\ IsControlNumber(CellOf(1))
    /\ YieldsParcelId(3)
    /\ raw_value[7] = Not_Sold

\* C17: parse_judicial_row makes of a row whose cell 1 is a control number,
\* whose cell 3 yields a parcel ID and whose winning bid cell is "Not Sold" a
\* record without total_due whose parcel_id, owner and address come from
\* cells 3, 2 and 4; of a row whose cell 1 is no control number it makes no
\* record.
C17_NotSoldRowKeepsItsFields ==
    called = "parse_judicial_row"
        => /\ NotSoldRow
                 => /\ returned # <<>>
                    /\ returned[1].total_due = <<>>
                    /\ returned[1].parcel_id
                         = parse_parcel_id(CellOf(3), state_code)
                    /\ Truthy(raw_value[3])
                         => /\ Truthy(returned[1].owner)
                            /\ returned[1].owner = clean_spaced_text(CellOf(2))
                    /\ Truthy(raw_value[5])
                         => /\ Truthy(returned[1].address)
                            /\ returned[1].address
                                 = clean_spaced_address(CellOf(4))
           /\ (Len(raw_value) < 2 \/ ~IsControlNumber(CellOf(1)))
                 => returned = <<>>

\* a row that was not sold was parsed to a record with owner and address
C17_NotSoldRowParsed ==
    /\ called = "parse_judicial_row"
    /\ NotSoldRow
    /\ returned # <<>>
    /\ returned[1].total_due = <<>>
    /\ Truthy(returned[1].owner)
    /\ Truthy(returned[1].address)

\* the cells of the row of the call, in the order of the row
CellsWith(Q(_)) == {i \in 0..(Len(raw_value) - 1) : Truthy(raw_value[i + 1]) /\ Q(i)}

First(S) == CHOOSE i \in S : \A j \in S : i <= j

HoldsDollar(i) == Contains(CellOf(i), <<"$">>)

HoldsStreet(i) == LooksLikeAddress(Upper(CellOf(i)))

\* C18: parse_generic_row takes the first cell that yields a parcel ID as
\* parcel_id, the first cell that holds $ as the amount and the first cell
\* that matches the street pattern as the address, so that no later cell
\* replaces a field an earlier cell qualified for, whatever the amount of
\* the earlier cell; it returns None exactly when no cell yields a parcel ID.
C18_FirstQualifyingCellWins ==
    called = "parse_generic_row"
        => /\ returned = <<>> <=> CellsWith(YieldsParcelId) = {}
           /\ returned # <<>>
                 => /\ returned[1].parcel_id
                         = parse_parcel_id(CellOf(First(CellsWith(YieldsParcelId))),
                                           state_code)
                    /\ returned[1].total_due
                         = IF CellsWith(HoldsDollar) = {} THEN <<>>
                           ELSE parse_money(CellOf(First(CellsWith(HoldsDollar))))
                    /\ returned[1].address
                         = IF CellsWith(HoldsStreet) = {} THEN NoneStr
                           ELSE clean_spaced_address(
                                    CellOf(First(CellsWith(HoldsStreet))))

(* ---------------------------------------------------------------------- *)
(* clean_spaced_text                                                       *)
(* ---------------------------------------------------------------------- *)

\* C19: clean_spaced_text is idempotent: applied to what it returned, also
\* for a text whose words hold a hyphen or an apostrophe before a single
\* letter, it returns the same text.
C19_RepairIsIdempotent ==
    called = "clean_spaced_text" => clean_spaced_text(returned) = returned

\* the words of a text
WordsOf(text) == SplitOn(NormalizeSpaces(text), " ")

\* how often the word occurs among the words of the text
Occurrences(text, word) ==
    Cardinality({k \in DOMAIN WordsOf(text) : WordsOf(text)[k] = word})

NameRepaired == <<"B", "A", "R", "N", "E", "R", " ", "D", "A", "V", "I", "D", " ", "W">>

\* C20: clean_spaced_text merges no word of COMMON_FIRST_NAMES into the word
\* before it, neither after a run of single letters nor after one single
\* letter: every such word of the text is a word of the result, and
\* "B A R N ER DAVID W" gives "BARNER DAVID W".
C20_FirstNameStaysApart ==
    called = "clean_spaced_text"
        => /\ \A name \in COMMON_FIRST_NAMES :
                 Occurrences(raw_value, name) <= Occurrences(returned, name)
           /\ raw_value = NameOfDocstring => returned = NameRepaired

(* ---------------------------------------------------------------------- *)
(* The format of the document                                              *)
(* ---------------------------------------------------------------------- *)

\* the row read last went to a parser
RowDispatched ==
    last.kind = "row" /\ last.outcome \in {"record", "rejected", "exception"}

\* C21: when detection finds no signature (it returns unknown, or it has
\* not run because the first page has no usable first row), the sale type
\* of the caller is the format: a data row goes to the repository, judicial
\* or upset parser the sale type names, to the generic parser only when the
\* sale type is unknown.
C21_HintIsFormatWithoutSignature ==
    (RowDispatched /\ detection.result \in {"none", "unknown"})
        => last.parser = ParserFor(sale_type)

\* C22: a parse of a document with a table runs detection exactly once, on
\* row 0 of the first table of page 1: not zero times, not on a row of a
\* later table, not after a row has been read.
C22_DetectionOnceOnFirstRow ==
    /\ detection.runs <= 1
    /\ (pc = "done" /\ table_pages # {})
          => /\ detection.runs = 1
             /\ detection.units_before = 0
             /\ detection.records_before = 0

\* C23: once pdf_format is set, by detection or from the sale type, no later
\* step of the parse (row, table, page, municipality marker, row exception,
\* text scan) changes it.
C23_FormatFrozenOnceSet ==
    [][pdf_format # "None" => pdf_format' = pdf_format]_vars

\* the format was set on page 1 and a line of page 2 was scanned after it
C23_LineScannedAfterDetection ==
    /\ detection.runs = 1
    /\ pdf_format # "None"
    /\ page_num = 2
    /\ last.kind = "line"

\* detection ran on the row read last
DetectionRow ==
    /\ last.kind = "row"
    /\ detection.runs = 1
    /\ detection.units_before + 1 = n_units

\* C24: the row detection runs on is discarded unclassified and unparsed
\* exactly when the format then is repository or judicial, and no other row
\* is discarded so; when the format is upset that row is classified as
\* marker, header or data like any other row and, as data, goes to the
\* upset parser.
C24_DetectionRowDiscardedIffHeaderFormat ==
    last.kind = "row"
        => /\ last.outcome = "column_header"
                 <=> (DetectionRow /\ pdf_format \in {"repository", "judicial"})
           /\ (DetectionRow /\ pdf_format = "upset")
                 => /\ last.outcome = "municipality"
                         <=> Truthy(Municipality[last.row])
                    /\ last.outcome = "header_skip"
                         <=> (/\ ~Truthy(Municipality[last.row])
                              /\ HeaderOrSkip[last.row])
                    /\ RowDispatched
                         <=> (/\ ~Truthy(Municipality[last.row])
                              /\ ~HeaderOrSkip[last.row])
                    /\ RowDispatched => last.parser = "upset"

\* the row detection ran on was parsed to a record by the upset parser
C24_DetectionRowParsedAsUpset ==
    /\ DetectionRow
    /\ pdf_format = "upset"
    /\ last.outcome = "record"
    /\ last.parser = "upset"

(* ---------------------------------------------------------------------- *)
(* Rows, pages and the parser of the document                              *)
(* ---------------------------------------------------------------------- *)

\* C25: a table row whose first cell, upper-cased, holds TOWNSHIP, BOROUGH
\* or CITY OF is a municipality marker wherever it stands and however many
\* cells it has: it sets the current municipality to the text of that cell
\* and yields no record.
C25_MarkerRowSetsMunicipality ==
    (last.kind = "row" /\ Truthy(Municipality[last.row]))
        => /\ last.outcome = "municipality"
           /\ current_municipality = Municipality[last.row]

\* a line was scanned, or a record of the text scan was appended
LineScanStep ==
    \/ scanned' # scanned
    \/ /\ Len(paths') > Len(paths)
       /\ paths'[Len(paths')] = "text"

\* the last n elements of a sequence
Suffix(seq, n) == SubSeq(seq, Len(seq) - n + 1, Len(seq))

\* C26: the text scan runs for a page exactly when the page has no table: a
\* line is scanned and a text record made only on a page without tables,
\* every line of such a page is scanned before the page is left, and the
\* scan changes neither the format nor the current municipality.
C26_TextScanIffNoTables ==
    [][/\ LineScanStep
            => /\ page_num \notin table_pages
               /\ pdf_format' = pdf_format
               /\ current_municipality' = current_municipality
       /\ (pc = "lines" /\ pc' = "pages")
            => /\ page_num \notin table_pages
               /\ Suffix(scanned, Len(LinesOf[page_text])) = LinesOf[page_text]
       /\ (pc = "rows" /\ pc' = "pages") => page_num \in table_pages]_vars

\* after a page with a municipality marker, a page without tables gave a
\* text record
C26_TextRecordAfterTablePage ==
    /\ table_pages = {1}
    /\ page_num = 2
    /\ Truthy(current_municipality)
    /\ last.kind = "line"
    /\ last.outcome = "record"

\* C27: the parser is chosen once for the document: all records one parse
\* makes of table rows come from the same parser and carry the same
\* confidence.
C27_OneParserPerDocument ==
    \A i \in DOMAIN paths : \A j \in DOMAIN paths :
        (paths[i] # "text" /\ paths[j] # "text")
            => /\ paths[i] = paths[j]
               /\ properties[i].confidence = properties[j].confidence

\* a table row was skipped without an exception: it was short, a header, or
\* its parser returned None
RowSkippedStep ==
    /\ n_units' = n_units + 1
    /\ last'.kind = "row"
    /\ last'.outcome \in {"short", "header_skip", "rejected"}

\* C28 as stated: a table row that is skipped without an exception leaves
\* the format, the current municipality and the output list unchanged.
C28_SkippedRowChangesNothing ==
    [][RowSkippedStep
          => /\ pdf_format' = pdf_format
             /\ current_municipality' = current_municipality
             /\ properties' = properties]_vars

\* C28: a table row that is skipped without an exception leaves the current
\* municipality and the output list unchanged, and leaves the format
\* unchanged unless it is the row detection runs on (at least 3 cells, row 0
\* of a table of page 1, format not yet set), which sets the format before
\* it is skipped.
C28_SkippedRowChangesFormatOnlyByDetection ==
    [][RowSkippedStep
          => /\ current_municipality' = current_municipality
             /\ properties' = properties
             /\ (~Detecting \/ last'.outcome = "short")
                   => pdf_format' = pdf_format
             /\ pdf_format' # pdf_format
                   => /\ pdf_format = "None"
                      /\ detection'.runs = detection.runs + 1]_vars

\* the row detection ran on was skipped as a header, with the format set
C28_DetectionRowSkippedAsHeader ==
    /\ DetectionRow
    /\ last.outcome = "header_skip"
    /\ pdf_format # "None"

(* ---------------------------------------------------------------------- *)
(* The job of a document                                                   *)
(* ---------------------------------------------------------------------- *)

\* the terminal calls that returned for the job of the run
TerminalCalls(d) ==
    {k \in DOMAIN docs[d].job :
        docs[d].job[k].call \in {"complete_job", "fail_job"}}

\* C30: when parse_document is left after create_parsing_job returned,
\* exactly one terminal call was made for the job, complete_job or fail_job,
\* not both and not neither, whichever of download, parse, upsert,
\* complete_job and the removal of the file raised.
C30_OneTerminalCallPerJob ==
    \A d \in Instances :
        docs[d].pc \in {"returned", "raised"}
            => Cardinality(TerminalCalls(d)) = 1

\* C29: for every finite document parse_pdf terminates, and when it has
\* terminated every row of every table of every page and every text line of
\* every page without tables has been read exactly once, in document order,
\* whatever rows were skipped and whatever rows raised.
C29_EveryUnitVisitedOnceInOrder ==
    /\ <>(pc = "done")
    /\ [](pc = "done" => visited = Positions)

\* the parse of the repository list has ended: five units, the last two
\* of them text lines
C29_RepositoryListParsed ==
    /\ pc = "done"
    /\ document.pages = DocRepository
    /\ Len(visited) = 5
    /\ last.kind = "line"
    /\ Len(properties) >= 1

====
